---- MODULE Spec2Model ----
(***************************************************************************)
(* Census Chat: the Flask front end (flask_app.py) and the shared pure     *)
(* logic (core.py).  A text is a sequence of one-character strings; a      *)
(* fixed literal of the program (a message it prints) is kept as a single  *)
(* element of such a sequence.                                             *)
(***************************************************************************)
EXTENDS Integers, Sequences, FiniteSets, TLC

(***************************************************************************)
(* Characters and Python's str primitives                                  *)
(*                                                                         *)
(* The alphabet is U+0000..U+00FF, the white space beyond it, and the      *)
(* characters beyond it that str.upper or re.IGNORECASE relate to one of   *)
(* those.  A printable character of U+0020..U+00FF is the string made of   *)
(* it; tab, line feed, form feed and carriage return are "\t", "\n", "\f"  *)
(* and "\r"; the grave accent is Backtick; every other character is the    *)
(* string "U+" and the four hexadecimal digits of its code point           *)
(* ("U+00A0" is the no-break space, "U+017F" the long s).                  *)
(***************************************************************************)
LowerCase == <<"a","b","c","d","e","f","g","h","i","j","k","l","m",
               "n","o","p","q","r","s","t","u","v","w","x","y","z">>
UpperCase == <<"A","B","C","D","E","F","G","H","I","J","K","L","M",
               "N","O","P","Q","R","S","T","U","V","W","X","Y","Z">>
Digits == {"0","1","2","3","4","5","6","7","8","9"}

\* the other characters c of the alphabet for which c.upper() is one character
\* that is not c, and that character at the same place
LowerMore ==
  <<"µ", "à", "á", "â", "ã", "ä", "å", "æ", "ç", "è", "é", "ê", "ë", "ì",
    "í", "î", "ï", "ð", "ñ", "ò", "ó", "ô", "õ", "ö", "ø", "ù", "ú", "û",
    "ü", "ý", "þ", "ÿ", "U+0131", "U+017F", "U+03BC">>
UpperMore ==
  <<"U+039C", "À", "Á", "Â", "Ã", "Ä", "Å", "Æ", "Ç", "È", "É", "Ê", "Ë",
    "Ì", "Í", "Î", "Ï", "Ð", "Ñ", "Ò", "Ó", "Ô", "Õ", "Ö", "Ø", "Ù", "Ú",
    "Û", "Ü", "Ý", "Þ", "U+0178", "I", "S", "U+039C">>

Range(f) == {f[i] : i \in DOMAIN f}

\* the characters for which str.isspace holds: what str.strip() and
\* str.split() take, and the class \s of re for a str pattern
SpaceChars ==
  {"\t", "\n", "U+000B", "\f", "\r", "U+001C", "U+001D", "U+001E", "U+001F",
   " ", "U+0085", "U+00A0", "U+1680", "U+2000", "U+2001", "U+2002",
   "U+2003", "U+2004", "U+2005", "U+2006", "U+2007", "U+2008", "U+2009",
   "U+200A", "U+2028", "U+2029", "U+202F", "U+205F", "U+3000"}

\* the characters beyond ASCII that the class \w of re takes (str pattern)
WordMore ==
  {"ª", "²", "³", "µ", "¹", "º", "¼", "½", "¾", "À", "Á", "Â", "Ã", "Ä",
   "Å", "Æ", "Ç", "È", "É", "Ê", "Ë", "Ì", "Í", "Î", "Ï", "Ð", "Ñ", "Ò",
   "Ó", "Ô", "Õ", "Ö", "Ø", "Ù", "Ú", "Û", "Ü", "Ý", "Þ", "ß", "à", "á",
   "â", "ã", "ä", "å", "æ", "ç", "è", "é", "ê", "ë", "ì", "í", "î", "ï",
   "ð", "ñ", "ò", "ó", "ô", "õ", "ö", "ø", "ù", "ú", "û", "ü", "ý", "þ",
   "ÿ", "U+0130", "U+0131", "U+0178", "U+017F", "U+039C", "U+03BC",
   "U+1E9E", "U+212A", "U+212B"}

WordChars == Range(LowerCase) \cup Range(UpperCase) \cup Digits \cup {"_"} \cup WordMore

UpperOf ==
  [c \in Range(LowerCase) \cup Range(LowerMore) |->
     IF c \in Range(LowerCase)
       THEN UpperCase[CHOOSE i \in DOMAIN LowerCase : LowerCase[i] = c]
       ELSE UpperMore[CHOOSE i \in DOMAIN LowerMore : LowerMore[i] = c]]

\* The character that stands for the class of c under re.IGNORECASE: two
\* characters match each other exactly when they have the same one.
FoldOf ==
  [c \in DOMAIN UpperOf \cup {"ß", "U+0130", "U+212A", "U+212B"} |->
     CASE c = "ß" -> "U+1E9E"
       [] c = "U+0130" -> "I"
       [] c = "U+212A" -> "K"
       [] c = "U+212B" -> "Å"
       [] OTHER -> UpperOf[c]]

\* str.isspace for one character, the class \s of re
IsSpace(c) == c \in SpaceChars

\* the class \w of re
IsWord(c) == c \in WordChars

\* str.upper for one character: a text, of two characters for the sharp s
Upper(c) ==
  IF c = "ß" THEN <<"S", "S">>
  ELSE IF c \in DOMAIN UpperOf THEN <<UpperOf[c]>> ELSE <<c>>

\* str.upper
RECURSIVE UpperText(_)
UpperText(s) == IF s = <<>> THEN <<>> ELSE Upper(Head(s)) \o UpperText(Tail(s))

\* a text with each character replaced by the one standing for its class
\* under re.IGNORECASE
Fold(c) == IF c \in DOMAIN FoldOf THEN FoldOf[c] ELSE c

FoldText(s) == [i \in 1..Len(s) |-> Fold(s[i])]

\* s[i-1:j-1] of Python with 1-based inclusive ends; empty when j < i
Slice(s, i, j) == IF j < i THEN <<>> ELSE SubSeq(s, i, j)

\* str.lstrip()
RECURSIVE LStrip(_)
LStrip(s) == IF s # <<>> /\ IsSpace(Head(s)) THEN LStrip(Tail(s)) ELSE s

\* str.rstrip()
RECURSIVE RStrip(_)
RStrip(s) ==
  IF s # <<>> /\ IsSpace(s[Len(s)]) THEN RStrip(SubSeq(s, 1, Len(s) - 1)) ELSE s

\* str.strip()
Strip(s) == RStrip(LStrip(s))

\* str.rstrip(";")
RECURSIVE RStripSemi(_)
RStripSemi(s) ==
  IF s # <<>> /\ s[Len(s)] = ";" THEN RStripSemi(SubSeq(s, 1, Len(s) - 1)) ELSE s

\* s.startswith(p) at offset i (1-based): s[i-1:].startswith(p)
StartsWithAt(s, i, p) ==
  /\ i + Len(p) - 1 <= Len(s)
  /\ \A k \in 1..Len(p) : s[i + k - 1] = p[k]

StartsWith(s, p) == StartsWithAt(s, 1, p)

\* s.find(p, from): the least 1-based index >= from where p occurs, 0 if none
FindFrom(s, p, from) ==
  LET hits == {i \in from..Len(s) : StartsWithAt(s, i, p)}
  IN IF hits = {} THEN 0 ELSE CHOOSE i \in hits : \A j \in hits : i <= j

Find(s, p) == FindFrom(s, p, 1)

\* s.split("\n", 1)[-1]: what follows the first line break, or s when none
SplitLineLast(s) ==
  LET nl == Find(s, <<"\n">>)
  IN IF nl = 0 THEN s ELSE Slice(s, nl + 1, Len(s))

\* s.split()[0] when s.split() is not empty, else ""
FirstToken(s) ==
  LET t == LStrip(s)
      ends == {i \in 1..Len(t) : IsSpace(t[i])}
      stop == IF ends = {} THEN Len(t) + 1 ELSE CHOOSE i \in ends : \A j \in ends : i <= j
  IN Slice(t, 1, stop - 1)

\* re \b at the gap before index i (1-based) of s
WordBoundary(s, i) ==
  LET before == i > 1 /\ i - 1 <= Len(s) /\ IsWord(s[i - 1])
      after  == i >= 1 /\ i <= Len(s) /\ IsWord(s[i])
  IN before # after

\* re.search(r"\b(w1|w2|...)\b", s, re.IGNORECASE) is not None
SearchWholeWord(s, words) ==
  LET folded == FoldText(s)
      terms == {FoldText(w) : w \in words}
  IN \E i \in 1..Len(s) :
       /\ WordBoundary(s, i)
       /\ \E w \in terms :
            /\ StartsWithAt(folded, i, w)
            /\ WordBoundary(s, i + Len(w))

(***************************************************************************)
(* core.py: the SQL safety classifier, the guardrail, the extractor        *)
(***************************************************************************)
DANGEROUS_KEYWORDS ==
  { <<"D","R","O","P">>,
    <<"D","E","L","E","T","E">>,
    <<"I","N","S","E","R","T">>,
    <<"U","P","D","A","T","E">>,
    <<"A","L","T","E","R">>,
    <<"C","R","E","A","T","E">>,
    <<"T","R","U","N","C","A","T","E">>,
    <<"R","E","P","L","A","C","E">>,
    <<"M","E","R","G","E">>,
    <<"G","R","A","N","T">>,
    <<"R","E","V","O","K","E">>,
    <<"E","X","E","C">>,
    <<"E","X","E","C","U","T","E">> }

\* The first while loop of _strip_sql_comments, from an already stripped s.
\* An iteration on a text with no line break leaves s as it is (split gives
\* one piece, which [-1] selects), so the loop runs forever: LineLoopDiverges.
RECURSIVE LineLoopDiverges(_)
LineLoopDiverges(s) ==
  /\ StartsWith(s, <<"-", "-">>)
  /\ \/ Find(s, <<"\n">>) = 0
     \/ LineLoopDiverges(Strip(SplitLineLast(s)))

\* the value of s when the first loop exits (the stuck value when it does not)
RECURSIVE StripLineComments(_)
StripLineComments(s) ==
  IF StartsWith(s, <<"-", "-">>) /\ Find(s, <<"\n">>) # 0
    THEN StripLineComments(Strip(SplitLineLast(s)))
    ELSE s

\* the second while loop of _strip_sql_comments
RECURSIVE StripBlockComments(_)
StripBlockComments(s) ==
  LET end == Find(s, <<"*", "/">>)
  IN IF StartsWith(s, <<"/", "*">>) /\ end # 0
       THEN StripBlockComments(Strip(Slice(s, end + 2, Len(s))))
       ELSE s

_strip_sql_comments(sql) == StripBlockComments(StripLineComments(Strip(sql)))

\* whether the call is_safe_sql(sql) returns at all
is_safe_sql_returns(sql) == ~LineLoopDiverges(Strip(sql))

\* the value is_safe_sql(sql) returns, when it returns; stripped is bound to
\* its value, computed once
is_safe_sql(sql) ==
  \E stripped \in { Strip(RStripSemi(_strip_sql_comments(sql))) } :
    LET first_word == UpperText(FirstToken(stripped))
    IN /\ first_word \in { <<"S","E","L","E","C","T">>, <<"W","I","T","H">> }
       /\ ~SearchWholeWord(stripped, DANGEROUS_KEYWORDS)

OFF_TOPIC_PATTERNS ==
  { <<"p","o","r","n">>,
    <<"n","u","d","e">>,
    <<"s","e","x">>,
    <<"k","i","l","l">>,
    <<"b","o","m","b">>,
    <<"h","a","c","k">>,
    <<"c","r","a","c","k">>,
    <<"d","r","u","g">>,
    <<"d","r","u","g","s">>,
    <<"w","e","a","p","o","n">>,
    <<"w","e","a","p","o","n","s">>,
    <<"s","u","i","c","i","d","e">> }

is_off_topic(text) == SearchWholeWord(text, OFF_TOPIC_PATTERNS)

\* The grave accent U+0060, which a TLA+ string cannot hold, is this element.
Backtick == "BACKTICK"

Fence == <<Backtick, Backtick, Backtick>>
FenceSql == Fence \o <<"s", "q", "l">>

\* re.findall of the pattern of extract_sql (re.DOTALL) from index pos on:
\* the leftmost opening, its greedy \s*, the lazy group up to the first
\* closing fence, less the white space before it; then on after that fence.
RECURSIVE ExtractFrom(_, _)
ExtractFrom(text, pos) ==
  LET i == FindFrom(text, FenceSql, pos)
      rest == Slice(text, i + Len(FenceSql), Len(text))
      p == Len(text) - Len(LStrip(rest)) + 1
      j == FindFrom(text, Fence, p)
  IN IF i = 0 \/ j = 0
       THEN <<>>
       ELSE <<RStrip(Slice(text, p, j - 1))>> \o ExtractFrom(text, j + Len(Fence))

extract_sql(text) == ExtractFrom(text, 1)

(***************************************************************************)
(* core.py: the query executor                                             *)
(***************************************************************************)
max_rows == 500

Min(a, b) == IF a < b THEN a ELSE b

\* dict(zip(columns, row)): each column name to the value at its last place
Record(columns, row) ==
  LET n == Min(Len(columns), Len(row))
  IN [c \in {columns[k] : k \in 1..n} |->
        row[CHOOSE k \in 1..n : columns[k] = c /\ \A m \in 1..n : columns[m] = c => m <= k]]

\* What the message of the error raised on a closed handle reads.
ConnClosedMsg == <<"Connection is closed">>

\* run_query whose except branch gives an empty result instead of the error
run_query_swallows(sql, conn_closed, cursor, cap) ==
  IF conn_closed \/ cursor.raises
    THEN [isdict |-> FALSE, rows |-> <<>>]
    ELSE [isdict |-> FALSE,
          rows |-> [k \in 1..Min(Len(cursor.rows), cap) |->
                      Record(cursor.description, cursor.rows[k])]]

\* run_query(sql, conn, max_rows) on a handle that is closed or not, with
\* what the cursor does for this statement: raise (with a message), or give
\* a description and rows.
run_query(sql, conn_closed, cursor, cap) ==
  IF conn_closed
    THEN [isdict |-> TRUE, error |-> ConnClosedMsg]
    ELSE IF cursor.raises
      THEN [isdict |-> TRUE, error |-> cursor.msg]
      ELSE [isdict |-> FALSE,
            rows |-> [k \in 1..Min(Len(cursor.rows), cap) |->
                        Record(cursor.description, cursor.rows[k])]]

(***************************************************************************)
(* Rendering: str(i), str(result), the messages of flask_app.py            *)
(***************************************************************************)
DigitChars == <<"0","1","2","3","4","5","6","7","8","9">>

\* str(n) for n >= 0
RECURSIVE DecimalText(_)
DecimalText(n) ==
  IF n < 10 THEN <<DigitChars[n + 1]>>
            ELSE DecimalText(n \div 10) \o <<DigitChars[(n % 10) + 1]>>

\* str(n) for an int n
IntText(n) == IF n < 0 THEN <<"-">> \o DecimalText(0 - n) ELSE DecimalText(n)

HexChars == <<"0","1","2","3","4","5","6","7","8","9","a","b","c","d","e","f">>

\* the last width hexadecimal digits of n, as repr writes them
RECURSIVE HexText(_, _)
HexText(n, width) ==
  IF width = 0 THEN <<>>
  ELSE HexText(n \div 16, width - 1) \o <<HexChars[(n % 16) + 1]>>

\* The characters of the alphabet for which str.isprintable does not hold:
\* U+0000..U+001F, U+007F..U+00A0, the soft hyphen, and the white space
\* beyond U+00FF (with its code points at the same places).
ControlsLow ==
  <<"U+0000", "U+0001", "U+0002", "U+0003", "U+0004", "U+0005", "U+0006",
    "U+0007", "U+0008", "\t", "\n", "U+000B", "\f", "\r", "U+000E", "U+000F",
    "U+0010", "U+0011", "U+0012", "U+0013", "U+0014", "U+0015", "U+0016",
    "U+0017", "U+0018", "U+0019", "U+001A", "U+001B", "U+001C", "U+001D",
    "U+001E", "U+001F">>
ControlsHigh ==
  <<"U+007F", "U+0080", "U+0081", "U+0082", "U+0083", "U+0084", "U+0085",
    "U+0086", "U+0087", "U+0088", "U+0089", "U+008A", "U+008B", "U+008C",
    "U+008D", "U+008E", "U+008F", "U+0090", "U+0091", "U+0092", "U+0093",
    "U+0094", "U+0095", "U+0096", "U+0097", "U+0098", "U+0099", "U+009A",
    "U+009B", "U+009C", "U+009D", "U+009E", "U+009F", "U+00A0">>
SoftHyphen == "U+00AD"
FarSpaces ==
  <<"U+1680", "U+2000", "U+2001", "U+2002", "U+2003", "U+2004", "U+2005",
    "U+2006", "U+2007", "U+2008", "U+2009", "U+200A", "U+2028", "U+2029",
    "U+202F", "U+205F", "U+3000">>
FarCodes ==
  <<5760, 8192, 8193, 8194, 8195, 8196, 8197, 8198, 8199, 8200, 8201, 8202,
    8232, 8233, 8239, 8287, 12288>>

\* the code point of a character that is not printable
CodeOf ==
  [c \in Range(ControlsLow) \cup Range(ControlsHigh) \cup {SoftHyphen} \cup Range(FarSpaces) |->
     IF c \in Range(ControlsLow)
       THEN (CHOOSE i \in DOMAIN ControlsLow : ControlsLow[i] = c) - 1
     ELSE IF c \in Range(ControlsHigh)
       THEN (CHOOSE i \in DOMAIN ControlsHigh : ControlsHigh[i] = c) + 126
     ELSE IF c = SoftHyphen
       THEN 173
       ELSE FarCodes[CHOOSE i \in DOMAIN FarSpaces : FarSpaces[i] = c]]

\* what repr writes for one character of a str it encloses in quote
ReprChar(c, quote) ==
  IF c = quote \/ c = "\\" THEN <<"\\", c>>
  ELSE IF c = "\t" THEN <<"\\", "t">>
  ELSE IF c = "\n" THEN <<"\\", "n">>
  ELSE IF c = "\r" THEN <<"\\", "r">>
  ELSE IF c \in DOMAIN CodeOf
    THEN IF CodeOf[c] < 256 THEN <<"\\", "x">> \o HexText(CodeOf[c], 2)
                            ELSE <<"\\", "u">> \o HexText(CodeOf[c], 4)
  ELSE <<c>>

\* repr of a str: in double quotes when it holds a single quote and no
\* double quote, else in single quotes
ReprStr(t) ==
  LET quote == IF (\E i \in DOMAIN t : t[i] = "'") /\ (\A i \in DOMAIN t : t[i] # "\"")
                 THEN "\"" ELSE "'"
      RECURSIVE Body(_)
      Body(s) == IF s = <<>> THEN <<>> ELSE ReprChar(Head(s), quote) \o Body(Tail(s))
  IN <<quote>> \o Body(t) \o <<quote>>

\* A value of a result row is [int |-> n] for an int, [str |-> t] for a str,
\* [none |-> TRUE] for None (a NULL of the database).
IntCell(n) == [int |-> n]
StrCell(t) == [str |-> t]
NoneCell == [none |-> TRUE]

\* repr of a value of a result row
ReprCell(v) ==
  IF "int" \in DOMAIN v THEN IntText(v.int)
  ELSE IF "str" \in DOMAIN v THEN ReprStr(v.str)
  ELSE <<"N", "o", "n", "e">>

\* sep.join(parts)
RECURSIVE Join(_, _)
Join(sep, parts) ==
  IF parts = <<>> THEN <<>>
  ELSE IF Len(parts) = 1 THEN parts[1]
  ELSE parts[1] \o sep \o Join(sep, Tail(parts))

\* str of one record of a result, its columns in description order
ReprRecord(columns, rec) ==
  LET firsts == {k \in 1..Len(columns) :
                   columns[k] \in DOMAIN rec /\ \A m \in 1..(k - 1) : columns[m] # columns[k]}
      keys == SelectSeq([k \in 1..Len(columns) |-> IF k \in firsts THEN <<columns[k]>> ELSE <<>>],
                        LAMBDA c : c # <<>>)
  IN <<"{">> \o Join(<<",", " ">>,
                     [k \in 1..Len(keys) |->
                        ReprStr(keys[k][1]) \o <<":", " ">> \o ReprCell(rec[keys[k][1]])])
     \o <<"}">>

\* str(result) for a list of records
ReprRows(columns, rows) ==
  <<"[">> \o Join(<<",", " ">>, [k \in 1..Len(rows) |-> ReprRecord(columns, rows[k])]) \o <<"]">>

RefusalText ==
  <<"I can only answer questions about US Census and population data. Please ask something related to demographics, housing, commuting, migration, or language statistics.">>
EmptyMessageError == <<"Empty message">>
BlockedMsg == <<"That query was blocked for safety reasons. I can only run SELECT queries.">>
QueryErrorPrefix == <<"Query error: ">>
ExhaustedMsg == <<"I had trouble completing that query. Could you try rephrasing your question?">>
FeedbackHeader == <<"Here are the query results:\n\n">>
FeedbackTrailer ==
  <<"\n\nPlease summarize these results in a clear, conversational way to answer the user's question. Do not output any more SQL.">>

\* results_text with the labels counted from 0, as enumerate gives them
results_text_from_zero(all_results) ==
  Join(<<"\n", "\n">>,
       [i \in 1..Len(all_results) |->
          <<"Query result ">> \o DecimalText(i - 1) \o <<":", "\n">> \o all_results[i]])

\* results_text and result_message of chat()
results_text(all_results) ==
  Join(<<"\n", "\n">>,
       [i \in 1..Len(all_results) |->
          <<"Query result ">> \o DecimalText(i) \o <<":", "\n">> \o all_results[i]])

result_message(all_results) == FeedbackHeader \o results_text(all_results) \o FeedbackTrailer

Message(role, content) == [role |-> role, content |-> content]
Step(type, content) == [type |-> type, content |-> content]

(***************************************************************************)
(* Bounds and the inputs the environment draws from                        *)
(***************************************************************************)
\* A request is served only while fewer than MaxStored messages were ever stored.
MaxStored == 3
\* At most MaxConnects calls of snowflake.connector.connect succeed.
MaxConnects == 2
\* A request is taken only while fewer than MaxRunning requests are inside
\* chat(); the specifications of the threads (ConcSpec, SameSpec) follow two
\* at once whatever this bound.
MaxRunning == 1

max_rounds == 5

\* the clients, numbered in the order of their first request
Clients == {1, 2}
Reqs == {1, 2}
NoSid == 0
NoConn == 0

\* a missing or null "message" of the request body
None == <<"None">>

MessageInputs ==
  { None,
    <<>>,
    <<" ">>,
    <<"\t", "\n">>,
    <<" ", "h", "i">>,
    <<"a", " ", "b", "o", "m", "b">> }

SqlSelect == <<"S","E","L","E","C","T"," ","1">>
SqlDrop == <<"D","R","O","P">>
SqlComment == <<"-","-","c">>

Block(sql) == FenceSql \o <<"\n">> \o sql \o <<"\n">> \o Fence

\* plain text; an unsafe statement and a safe one; an empty fenced region;
\* an unsafe statement and one that is only a line comment
RespAnswer == <<"o", "k">>
RespDropSelect == Block(SqlDrop) \o <<" ">> \o Block(SqlSelect)
RespEmpty == FenceSql \o Fence
RespDropComment == Block(SqlDrop) \o Block(SqlComment)
\* a safe statement, an unsafe one, and one that is only a line comment
RespSelectDropComment == Block(SqlSelect) \o Block(SqlDrop) \o Block(SqlComment)

\* what chat_with_llm may return
Responses == {RespAnswer, RespDropSelect, RespEmpty, RespDropComment, RespSelectDropComment}

\* str(exc) of what chat_with_llm may raise
LlmErrors == { <<"API error">> }

\* What snowflake.connector.connect may raise: the message of the exception.
ConnectErrors == { <<"connect failed">> }

\* what the cursor may do for a statement
Cursors ==
  { [raises |-> TRUE, msg |-> <<"SQL compilation error">>, description |-> <<>>, rows |-> <<>>],
    [raises |-> FALSE, msg |-> <<>>, description |-> << <<"S">>, <<"N">> >>,
     rows |-> << <<StrCell(<<"i", "t", "'", "s">>), IntCell(1)>> >>] }

(***************************************************************************)
(* State                                                                   *)
(***************************************************************************)
VARIABLES
  cookie,         \* session["sid"] of each client, NoSid when not set
  conversations,  \* _conversations: session id -> the list (its place in heap)
  heap,           \* the message lists ever created, by identity
  sf_conn,        \* _sf_conn: a handle, NoConn for None
  closed,         \* the handles for which is_closed() holds
  nconn,          \* handles created by connect so far
  app_conn,       \* the handle st.cache_resource keeps for get_snowflake_connection
                  \* of app.py, NoConn before its first call
  req,            \* the /chat requests: position, locals and response of chat(), and
                  \* what happened in the turn: the calls of chat_with_llm (llm_calls)
                  \* and of run_query (run_calls), the failures, what was raised (by the
                  \* model; in the script of app.py by connect as well),
                  \* whether a reset of its session completed during it (reset_during)
                  \* and how long its list was at the first such reset, -1 when
                  \* there was none or it had no list yet (reset_len), whether
                  \* another turn of its session has been inside chat() since it
                  \* began (beside)
  call            \* a direct call of a function of core.py, as test_core.py makes
                  \* them: the function, its argument, where the call is, its value

vars == <<cookie, conversations, heap, sf_conn, closed, nconn, app_conn, req, call>>

\* no direct call of core.py is under way
NoCall == [fn |-> "none", arg |-> <<>>, at |-> "none", ret |-> FALSE]

IdleReq ==
  [ pc |-> "idle", client |-> 0, user_text |-> <<>>, messages |-> 0,
    llm_messages |-> <<>>, steps |-> <<>>, conn |-> NoConn, round |-> 0,
    response_text |-> <<>>, sql_queries |-> <<>>, qi |-> 0, all_results |-> <<>>,
    response |-> [status |-> 0, error |-> <<>>],
    llm_calls |-> 0, run_calls |-> <<>>, failures |-> 0, raised |-> <<>>,
    reset_during |-> FALSE, reset_len |-> -1, beside |-> FALSE ]

Init ==
  /\ cookie = [c \in Clients |-> NoSid]
  /\ conversations = << >>
  /\ heap = << >>
  /\ sf_conn = NoConn
  /\ closed = {}
  /\ nconn = 0
  /\ app_conn = NoConn
  /\ req = [r \in Reqs |-> IdleReq]
  /\ call = NoCall

\* sids in use
Sids == {cookie[c] : c \in Clients} \ {NoSid}

\* str(uuid.uuid4()): a session id no client holds
FreshSid == Cardinality(Sids) + 1

RECURSIVE TotalLen(_)
TotalLen(lists) == IF lists = <<>> THEN 0 ELSE Len(Head(lists)) + TotalLen(Tail(lists))

Running(r) == req[r].pc \in {"connect", "connecting", "model", "queries", "feedback"}
Free(r) == req[r].pc \in {"idle", "done"}

\* app.run serves every request on a thread of its own (flask_app.py:149), so
\* a request is taken while others are inside chat().  The model takes one
\* while the bounds allow: fewer than MaxStored messages held, and fewer than
\* MaxRunning requests inside chat().
Serving ==
  /\ TotalLen(heap) < MaxStored
  /\ Cardinality({q \in Reqs : Running(q)}) < MaxRunning

\* The request is taken by the first thread that is not inside chat().
Serial(r) ==
  /\ Serving
  /\ Free(r)
  /\ \A q \in Reqs : q < r => ~Free(q)

\* a client makes its first /chat request after the clients numbered before it
InOrder(c) == \A d \in Clients : d < c => cookie[d] # NoSid

\* jsonify(steps=steps), 200: the steps are req[r].steps
Ok == [status |-> 200, error |-> <<>>]

(***************************************************************************)
(* flask_app.py: index, reset, the connection                              *)
(***************************************************************************)
\* reset that clears the whole store
ResetAll(c) ==
  /\ Serving
  /\ conversations' = << >>
  /\ UNCHANGED <<cookie, heap, sf_conn, closed, nconn, app_conn, req, call>>

\* POST /reset
Reset(c) ==
  /\ Serving
  /\ conversations' =
       IF cookie[c] # NoSid /\ cookie[c] \in DOMAIN conversations
         THEN [s \in DOMAIN conversations \ {cookie[c]} |-> conversations[s]]
         ELSE conversations
  /\ UNCHANGED <<cookie, heap, sf_conn, closed, nconn, app_conn, req, call>>

\* The server or the network closes the handle the process holds.
CloseConn ==
  /\ sf_conn # NoConn /\ sf_conn \notin closed
  /\ closed' = closed \cup {sf_conn}
  /\ UNCHANGED <<cookie, conversations, heap, sf_conn, nconn, app_conn, req, call>>

(***************************************************************************)
(* flask_app.py: chat                                                      *)
(***************************************************************************)
\* RejectEmpty after _get_messages: the session gets its id and its list
RejectEmptyStores(r, c) ==
  LET sid == IF cookie[c] = NoSid THEN FreshSid ELSE cookie[c]
      known == sid \in DOMAIN conversations
  IN /\ cookie' = [cookie EXCEPT ![c] = sid]
     /\ conversations' = IF known THEN conversations ELSE conversations @@ (sid :> Len(heap) + 1)
     /\ heap' = IF known THEN heap ELSE Append(heap, <<>>)
     /\ req' = [req EXCEPT ![r] =
          [IdleReq EXCEPT !.pc = "done", !.client = c,
                          !.response = [status |-> 400, error |-> EmptyMessageError]]]

\* chat() on an empty message: status 400, nothing else
RejectEmpty(r, c) ==
  /\ req' = [req EXCEPT ![r] =
       [IdleReq EXCEPT !.pc = "done", !.client = c,
                       !.response = [status |-> 400, error |-> EmptyMessageError]]]
  /\ UNCHANGED <<cookie, conversations, heap>>

\* BeginTurn whose setdefault gives every new entry one shared list
BeginTurnSharedDefault(r, c, user_text) ==
  LET sid == IF cookie[c] = NoSid THEN FreshSid ELSE cookie[c]
      known == sid \in DOMAIN conversations
      fresh == heap = <<>>
      list == IF known THEN conversations[sid] ELSE IF fresh THEN 1 ELSE Len(heap)
      old == IF fresh THEN <<>> ELSE heap[list]
      new == Append(old, Message("user", user_text))
  IN /\ cookie' = [cookie EXCEPT ![c] = sid]
     /\ conversations' = IF known THEN conversations ELSE conversations @@ (sid :> list)
     /\ heap' = IF fresh THEN <<new>> ELSE [heap EXCEPT ![list] = new]
     /\ req' = [req EXCEPT ![r] =
          [IdleReq EXCEPT !.pc = "connect", !.client = c, !.user_text = user_text,
                          !.messages = list, !.llm_messages = new]]

\* BeginTurn that gives the model the new message alone, not the history
BeginTurnForgets(r, c, user_text) ==
  LET sid == IF cookie[c] = NoSid THEN FreshSid ELSE cookie[c]
      known == sid \in DOMAIN conversations
      list == IF known THEN conversations[sid] ELSE Len(heap) + 1
      old == IF known THEN heap[list] ELSE <<>>
      new == Append(old, Message("user", user_text))
  IN /\ cookie' = [cookie EXCEPT ![c] = sid]
     /\ conversations' = IF known THEN conversations ELSE conversations @@ (sid :> list)
     /\ heap' = IF known THEN [heap EXCEPT ![list] = new] ELSE Append(heap, new)
     /\ req' = [req EXCEPT ![r] =
          [IdleReq EXCEPT !.pc = "connect", !.client = c, !.user_text = user_text,
                          !.messages = list, !.llm_messages = <<Message("user", user_text)>>]]

\* BeginTurn that starts the session's list anew with the user message
BeginTurnOverwrites(r, c, user_text) ==
  LET sid == IF cookie[c] = NoSid THEN FreshSid ELSE cookie[c]
      known == sid \in DOMAIN conversations
      list == IF known THEN conversations[sid] ELSE Len(heap) + 1
      new == <<Message("user", user_text)>>
  IN /\ cookie' = [cookie EXCEPT ![c] = sid]
     /\ conversations' = IF known THEN conversations ELSE conversations @@ (sid :> list)
     /\ heap' = IF known THEN [heap EXCEPT ![list] = new] ELSE Append(heap, new)
     /\ req' = [req EXCEPT ![r] =
          [IdleReq EXCEPT !.pc = "connect", !.client = c, !.user_text = user_text,
                          !.messages = list, !.llm_messages = new]]

\* chat() past the guardrail, up to the copy of the history for the model.
\* _get_messages gives the session an id when it has none and the store a
\* list for that id when it has none; messages is that list itself.
BeginTurn(r, c, user_text) ==
  LET sid == IF cookie[c] = NoSid THEN FreshSid ELSE cookie[c]
      known == sid \in DOMAIN conversations
      list == IF known THEN conversations[sid] ELSE Len(heap) + 1
      old == IF known THEN heap[list] ELSE <<>>
      new == Append(old, Message("user", user_text))
  IN /\ cookie' = [cookie EXCEPT ![c] = sid]
     /\ conversations' = IF known THEN conversations ELSE conversations @@ (sid :> list)
     /\ heap' = IF known THEN [heap EXCEPT ![list] = new] ELSE Append(heap, new)
     /\ req' = [q \in Reqs |->
          IF q = r
            THEN [IdleReq EXCEPT !.pc = "connect", !.client = c, !.user_text = user_text,
                                 !.messages = list, !.llm_messages = new,
                                 !.beside = \E o \in Reqs \ {r} : Running(o) /\ req[o].client = c]
          ELSE IF req[q].messages # 0 /\ req[q].client = c
            THEN [req[q] EXCEPT !.beside = TRUE]
            ELSE req[q]]

\* Refuse that refuses nothing: the turn goes on to the model
RefuseNothing(r, c, user_text) == BeginTurn(r, c, user_text)

\* Refuse after _get_messages and the append of the user message
RefuseStores(r, c, user_text) ==
  LET sid == IF cookie[c] = NoSid THEN FreshSid ELSE cookie[c]
      known == sid \in DOMAIN conversations
      list == IF known THEN conversations[sid] ELSE Len(heap) + 1
      old == IF known THEN heap[list] ELSE <<>>
      new == Append(old, Message("user", user_text))
  IN /\ cookie' = [cookie EXCEPT ![c] = sid]
     /\ conversations' = IF known THEN conversations ELSE conversations @@ (sid :> list)
     /\ heap' = IF known THEN [heap EXCEPT ![list] = new] ELSE Append(heap, new)
     /\ req' = [req EXCEPT ![r] =
          [IdleReq EXCEPT !.pc = "done", !.client = c, !.user_text = user_text,
                          !.steps = <<Step("answer", RefusalText)>>, !.response = Ok]]

\* the guardrail's refusal: the one answer Step, and the response
Refuse(r, c, user_text) ==
  /\ req' = [req EXCEPT ![r] =
       [IdleReq EXCEPT !.pc = "done", !.client = c, !.user_text = user_text,
                       !.steps = <<Step("answer", RefusalText)>>, !.response = Ok]]
  /\ UNCHANGED <<cookie, conversations, heap>>

\* POST /chat, up to the call of get_snowflake_connection
ChatStart(r, c, message) ==
  LET user_text == Strip(IF message = None THEN <<>> ELSE message)
  IN /\ Serial(r)
     /\ InOrder(c)
     /\ IF user_text = <<>> THEN RejectEmpty(r, c)
        ELSE IF is_off_topic(user_text) THEN Refuse(r, c, user_text)
        ELSE BeginTurn(r, c, user_text)
     /\ UNCHANGED <<sf_conn, closed, nconn, app_conn, call>>

\* UseConnection without the call of is_closed: the handle held, whatever
\* its state
UseConnectionUnchecked(r) ==
  /\ req[r].pc = "connect"
  /\ sf_conn # NoConn
  /\ req' = [req EXCEPT ![r].conn = sf_conn, ![r].pc = "model", ![r].round = 1]
  /\ UNCHANGED <<cookie, conversations, heap, sf_conn, closed, nconn, app_conn, call>>

\* conn = get_snowflake_connection(): the handle held, when it is not closed
UseConnection(r) ==
  /\ req[r].pc = "connect"
  /\ sf_conn # NoConn /\ sf_conn \notin closed
  /\ req' = [req EXCEPT ![r].conn = sf_conn, ![r].pc = "model", ![r].round = 1]
  /\ UNCHANGED <<cookie, conversations, heap, sf_conn, closed, nconn, app_conn, call>>

\* get_snowflake_connection finds no usable handle (flask_app.py:29) and calls
\* snowflake.connector.connect: the thread waits inside connect, holding no
\* lock, while other threads run.
EnterConnect(r) ==
  /\ req[r].pc = "connect"
  /\ sf_conn = NoConn \/ sf_conn \in closed
  /\ req' = [req EXCEPT ![r].pc = "connecting"]
  /\ UNCHANGED <<cookie, conversations, heap, sf_conn, closed, nconn, app_conn, call>>

\* connect returns a new handle: it is assigned to _sf_conn, whatever _sf_conn
\* holds by now, and returned (flask_app.py:30-31)
Connect(r) ==
  /\ req[r].pc = "connecting"
  /\ nconn < MaxConnects
  /\ nconn' = nconn + 1
  /\ sf_conn' = nconn + 1
  /\ req' = [req EXCEPT ![r].conn = nconn + 1, ![r].pc = "model", ![r].round = 1]
  /\ UNCHANGED <<cookie, conversations, heap, closed, app_conn, call>>

\* connect raises, and chat() with it; the request is answered with status
\* 500 and no steps.
ConnectFails(r) ==
  /\ req[r].pc = "connecting"
  /\ req' = [req EXCEPT ![r].pc = "done", ![r].failures = @ + 1,
                        ![r].response = [status |-> 500, error |-> <<>>]]
  /\ UNCHANGED <<cookie, conversations, heap, sf_conn, closed, nconn, app_conn, call>>

\* ModelRaises without its break: the next round calls the model again
ModelRaisesNoBreak(r, exc) ==
  LET steps == Append(req[r].steps, Step("error", exc))
  IN /\ req[r].pc = "model"
     /\ req' = IF req[r].round < max_rounds
                 THEN [req EXCEPT ![r].llm_calls = @ + 1, ![r].failures = @ + 1,
                                  ![r].raised = exc, ![r].steps = steps, ![r].round = @ + 1]
                 ELSE [req EXCEPT ![r].llm_calls = @ + 1, ![r].failures = @ + 1,
                                  ![r].raised = exc, ![r].steps = steps,
                                  ![r].response = Ok, ![r].pc = "done"]
     /\ UNCHANGED <<cookie, conversations, heap, sf_conn, closed, nconn, app_conn, call>>

\* ModelRaises that takes back what the turn appended to messages
ModelRaisesRollsBack(r, exc) ==
  LET steps == Append(req[r].steps, Step("error", exc))
      kept == Len(req[r].llm_messages) - 2 * (req[r].round - 1) - 1
  IN /\ req[r].pc = "model"
     /\ heap' = [heap EXCEPT ![req[r].messages] = SubSeq(@, 1, kept)]
     /\ req' = [req EXCEPT ![r].llm_calls = @ + 1, ![r].failures = @ + 1,
                           ![r].raised = exc, ![r].steps = steps, ![r].response = Ok, ![r].pc = "done"]
     /\ UNCHANGED <<cookie, conversations, sf_conn, closed, nconn, app_conn, call>>

\* chat_with_llm raises: the error Step, and the loop is left
ModelRaises(r, exc) ==
  LET steps == Append(req[r].steps, Step("error", exc))
  IN /\ req[r].pc = "model"
     /\ req' = [req EXCEPT ![r].llm_calls = @ + 1, ![r].failures = @ + 1,
                           ![r].raised = exc, ![r].steps = steps, ![r].response = Ok, ![r].pc = "done"]
     /\ UNCHANGED <<cookie, conversations, heap, sf_conn, closed, nconn, app_conn, call>>

\* ModelReturns that gives every response the type llm_response
ModelReturnsNoAnswerStep(r, response_text) ==
  LET sql_queries == extract_sql(response_text)
      steps == Append(req[r].steps, Step("llm_response", response_text))
  IN /\ req[r].pc = "model"
     /\ heap' = [heap EXCEPT ![req[r].messages] = Append(@, Message("assistant", response_text))]
     /\ req' = IF sql_queries = <<>>
                 THEN [req EXCEPT ![r].llm_calls = @ + 1, ![r].response_text = response_text,
                                  ![r].sql_queries = sql_queries,
                                  ![r].steps = steps, ![r].response = Ok, ![r].pc = "done"]
                 ELSE [req EXCEPT ![r].llm_calls = @ + 1, ![r].response_text = response_text,
                                  ![r].sql_queries = sql_queries, ![r].qi = 1,
                                  ![r].all_results = <<>>,
                                  ![r].steps = steps, ![r].pc = "queries"]
     /\ UNCHANGED <<cookie, conversations, sf_conn, closed, nconn, app_conn, call>>

\* ModelReturns that appends to messages only the final answer
ModelReturnsKeepsAnswerOnly(r, response_text) ==
  LET sql_queries == extract_sql(response_text)
      type == IF sql_queries = <<>> THEN "answer" ELSE "llm_response"
      steps == Append(req[r].steps, Step(type, response_text))
  IN /\ req[r].pc = "model"
     /\ heap' = IF sql_queries = <<>>
                  THEN [heap EXCEPT ![req[r].messages] =
                          Append(@, Message("assistant", response_text))]
                  ELSE heap
     /\ req' = IF sql_queries = <<>>
                 THEN [req EXCEPT ![r].llm_calls = @ + 1, ![r].response_text = response_text,
                                  ![r].sql_queries = sql_queries,
                                  ![r].steps = steps, ![r].response = Ok, ![r].pc = "done"]
                 ELSE [req EXCEPT ![r].llm_calls = @ + 1, ![r].response_text = response_text,
                                  ![r].sql_queries = sql_queries, ![r].qi = 1,
                                  ![r].all_results = <<>>,
                                  ![r].steps = steps, ![r].pc = "queries"]
     /\ UNCHANGED <<cookie, conversations, sf_conn, closed, nconn, app_conn, call>>

\* chat_with_llm returns response_text: the answer, or the start of the
\* round's queries
ModelReturns(r, response_text) ==
  LET sql_queries == extract_sql(response_text)
      type == IF sql_queries = <<>> THEN "answer" ELSE "llm_response"
      steps == Append(req[r].steps, Step(type, response_text))
  IN /\ req[r].pc = "model"
     /\ heap' = [heap EXCEPT ![req[r].messages] = Append(@, Message("assistant", response_text))]
     /\ req' = IF sql_queries = <<>>
                 THEN [req EXCEPT ![r].llm_calls = @ + 1, ![r].response_text = response_text,
                                  ![r].sql_queries = sql_queries,
                                  ![r].steps = steps, ![r].response = Ok, ![r].pc = "done"]
                 ELSE [req EXCEPT ![r].llm_calls = @ + 1, ![r].response_text = response_text,
                                  ![r].sql_queries = sql_queries, ![r].qi = 1,
                                  ![r].all_results = <<>>,
                                  ![r].steps = steps, ![r].pc = "queries"]
     /\ UNCHANGED <<cookie, conversations, sf_conn, closed, nconn, app_conn, call>>

\* the candidate the for loop is at
Candidate(r) == req[r].sql_queries[req[r].qi]

\* the for loop moves on, to the feedback after the last candidate
NextQuery(r) == IF req[r].qi = Len(req[r].sql_queries) THEN "feedback" ELSE "queries"

\* is_safe_sql(sql) does not return: the first loop of _strip_sql_comments
\* runs forever, and the request with it
ClassifierHangs(r) ==
  /\ req[r].pc = "queries"
  /\ ~is_safe_sql_returns(Candidate(r))
  /\ req' = [req EXCEPT ![r].pc = "hung"]
  /\ UNCHANGED <<cookie, conversations, heap, sf_conn, closed, nconn, app_conn, call>>

\* BlockQuery that appends no Step for the blocked candidate
BlockQuerySilent(r) ==
  /\ req[r].pc = "queries"
  /\ is_safe_sql_returns(Candidate(r))
  /\ ~is_safe_sql(Candidate(r))
  /\ req' = [req EXCEPT ![r].all_results = Append(@, BlockedMsg),
                        ![r].failures = @ + 1,
                        ![r].qi = @ + 1, ![r].pc = NextQuery(r)]
  /\ UNCHANGED <<cookie, conversations, heap, sf_conn, closed, nconn, app_conn, call>>

\* BlockQuery without its continue: the blocked candidate is run all the same
BlockQueryNoContinue(r) ==
  /\ req[r].pc = "queries"
  /\ is_safe_sql_returns(Candidate(r))
  /\ ~is_safe_sql(Candidate(r))
  /\ req' = [req EXCEPT ![r].steps = Append(@, Step("query_error", BlockedMsg)),
                        ![r].all_results = Append(@, BlockedMsg),
                        ![r].failures = @ + 1,
                        ![r].run_calls = Append(@, Candidate(r)),
                        ![r].qi = @ + 1, ![r].pc = NextQuery(r)]
  /\ UNCHANGED <<cookie, conversations, heap, sf_conn, closed, nconn, app_conn, call>>

\* a candidate that is not safe: blocked, and on to the next
BlockQuery(r) ==
  /\ req[r].pc = "queries"
  /\ is_safe_sql_returns(Candidate(r))
  /\ ~is_safe_sql(Candidate(r))
  /\ req' = [req EXCEPT ![r].steps = Append(@, Step("query_error", BlockedMsg)),
                        ![r].all_results = Append(@, BlockedMsg),
                        ![r].failures = @ + 1,
                        ![r].qi = @ + 1, ![r].pc = NextQuery(r)]
  /\ UNCHANGED <<cookie, conversations, heap, sf_conn, closed, nconn, app_conn, call>>

\* RunQuery that calls run_query a second time when the first call fails
RunQueryRetries(r, cursor) ==
  LET sql == Candidate(r)
      result == run_query(sql, req[r].conn \in closed, cursor, max_rows)
  IN /\ req[r].pc = "queries"
     /\ is_safe_sql_returns(sql)
     /\ is_safe_sql(sql)
     /\ req' = IF result.isdict
                 THEN [req EXCEPT ![r].steps = Append(@, Step("query_error", result.error)),
                                  ![r].all_results = Append(@, QueryErrorPrefix \o result.error),
                                  ![r].failures = @ + 1,
                                  ![r].run_calls = @ \o <<sql, sql>>,
                                  ![r].qi = @ + 1, ![r].pc = NextQuery(r)]
                 ELSE [req EXCEPT ![r].steps = Append(@, Step("query_result", result.rows)),
                                  ![r].all_results =
                                     Append(@, ReprRows(cursor.description, result.rows)),
                                  ![r].run_calls = Append(@, sql),
                                  ![r].qi = @ + 1, ![r].pc = NextQuery(r)]
     /\ UNCHANGED <<cookie, conversations, heap, sf_conn, closed, nconn, app_conn, call>>

\* a safe candidate: run_query, and its result as a Step and a result text
RunQuery(r, cursor) ==
  LET sql == Candidate(r)
      result == run_query(sql, req[r].conn \in closed, cursor, max_rows)
  IN /\ req[r].pc = "queries"
     /\ is_safe_sql_returns(sql)
     /\ is_safe_sql(sql)
     /\ req' = IF result.isdict
                 THEN [req EXCEPT ![r].steps = Append(@, Step("query_error", result.error)),
                                  ![r].all_results = Append(@, QueryErrorPrefix \o result.error),
                                  ![r].failures = @ + 1,
                                  ![r].run_calls = Append(@, sql),
                                  ![r].qi = @ + 1, ![r].pc = NextQuery(r)]
                 ELSE [req EXCEPT ![r].steps = Append(@, Step("query_result", result.rows)),
                                  ![r].all_results =
                                     Append(@, ReprRows(cursor.description, result.rows)),
                                  ![r].run_calls = Append(@, sql),
                                  ![r].qi = @ + 1, ![r].pc = NextQuery(r)]
     /\ UNCHANGED <<cookie, conversations, heap, sf_conn, closed, nconn, app_conn, call>>

\* FeedBack that gives the model the results without the response they answer
FeedBackNoAssistant(r) ==
  LET llm_messages == Append(req[r].llm_messages,
                             Message("user", result_message(req[r].all_results)))
      steps == Append(req[r].steps, Step("error", ExhaustedMsg))
  IN /\ req[r].pc = "feedback"
     /\ req' = IF req[r].round < max_rounds
                 THEN [req EXCEPT ![r].llm_messages = llm_messages,
                                  ![r].round = @ + 1, ![r].pc = "model"]
                 ELSE [req EXCEPT ![r].llm_messages = llm_messages,
                                  ![r].failures = @ + 1,
                                  ![r].steps = steps, ![r].response = Ok, ![r].pc = "done"]
     /\ UNCHANGED <<cookie, conversations, heap, sf_conn, closed, nconn, app_conn, call>>

\* FeedBack with the feedback appended to messages as well
FeedBackToVisible(r) ==
  LET fed == << Message("assistant", req[r].response_text),
                Message("user", result_message(req[r].all_results)) >>
      steps == Append(req[r].steps, Step("error", ExhaustedMsg))
  IN /\ req[r].pc = "feedback"
     /\ heap' = [heap EXCEPT ![req[r].messages] = Append(@, fed[2])]
     /\ req' = IF req[r].round < max_rounds
                 THEN [req EXCEPT ![r].llm_messages = @ \o fed,
                                  ![r].round = @ + 1, ![r].pc = "model"]
                 ELSE [req EXCEPT ![r].llm_messages = @ \o fed,
                                  ![r].failures = @ + 1,
                                  ![r].steps = steps, ![r].response = Ok, ![r].pc = "done"]
     /\ UNCHANGED <<cookie, conversations, sf_conn, closed, nconn, app_conn, call>>

\* FeedBack without the else branch of the for loop
FeedBackNoElse(r) ==
  LET llm_messages == req[r].llm_messages
                        \o << Message("assistant", req[r].response_text),
                              Message("user", result_message(req[r].all_results)) >>
  IN /\ req[r].pc = "feedback"
     /\ req' = IF req[r].round < max_rounds
                 THEN [req EXCEPT ![r].llm_messages = llm_messages,
                                  ![r].round = @ + 1, ![r].pc = "model"]
                 ELSE [req EXCEPT ![r].llm_messages = llm_messages,
                                  ![r].response = Ok, ![r].pc = "done"]
     /\ UNCHANGED <<cookie, conversations, heap, sf_conn, closed, nconn, app_conn, call>>

\* the results fed back to the model, and the next round; after the last
\* round the else branch of the for loop and the response
FeedBack(r) ==
  LET llm_messages == req[r].llm_messages
                        \o << Message("assistant", req[r].response_text),
                              Message("user", result_message(req[r].all_results)) >>
      steps == Append(req[r].steps, Step("error", ExhaustedMsg))
  IN /\ req[r].pc = "feedback"
     /\ req' = IF req[r].round < max_rounds
                 THEN [req EXCEPT ![r].llm_messages = llm_messages,
                                  ![r].round = @ + 1, ![r].pc = "model"]
                 ELSE [req EXCEPT ![r].llm_messages = llm_messages,
                                  ![r].failures = @ + 1,
                                  ![r].steps = steps, ![r].response = Ok, ![r].pc = "done"]
     /\ UNCHANGED <<cookie, conversations, heap, sf_conn, closed, nconn, app_conn, call>>

Next ==
  \/ \E c \in Clients : Reset(c)
  \/ CloseConn
  \/ \E r \in Reqs, c \in Clients, m \in MessageInputs : ChatStart(r, c, m)
  \/ \E r \in Reqs : UseConnection(r)
  \/ \E r \in Reqs : EnterConnect(r)
  \/ \E r \in Reqs : Connect(r)
  \/ \E r \in Reqs : ConnectFails(r)
  \/ \E r \in Reqs, e \in LlmErrors : ModelRaises(r, e)
  \/ \E r \in Reqs, t \in Responses : ModelReturns(r, t)
  \/ \E r \in Reqs : ClassifierHangs(r)
  \/ \E r \in Reqs : BlockQuery(r)
  \/ \E r \in Reqs, k \in Cursors : RunQuery(r, k)
  \/ \E r \in Reqs : FeedBack(r)

Spec == Init /\ [][Next]_vars

\* what the thread of request r does next; the calls it waits for return
TurnStep(r) ==
  \/ UseConnection(r)
  \/ EnterConnect(r)
  \/ Connect(r)
  \/ ConnectFails(r)
  \/ \E e \in LlmErrors : ModelRaises(r, e)
  \/ \E t \in Responses : ModelReturns(r, t)
  \/ ClassifierHangs(r)
  \/ BlockQuery(r)
  \/ \E k \in Cursors : RunQuery(r, k)
  \/ FeedBack(r)

(***************************************************************************)
(* Requests of different sessions served at once (the threads of app.run):  *)
(* thread c serves client c, who sends a request after the response to the  *)
(* one before.  The handle stays open.                                     *)
(***************************************************************************)
\* what client c types, apart from nothing
ConcText == [c \in Clients |-> IF c = 1 THEN <<"h", "i">> ELSE <<"y", "o">>]

ConcMessageInputs(c) == {None, ConcText[c]}

ConcResponses == {RespAnswer, RespDropSelect}

\* the cursor gives its rows
ConcCursors == {k \in Cursors : ~k.raises}

\* reset that clears the whole store
ConcResetAll(c) ==
  /\ Free(c)
  /\ conversations' = << >>
  /\ UNCHANGED <<cookie, heap, sf_conn, closed, nconn, app_conn, req, call>>

\* POST /reset of client c
ConcReset(c) ==
  /\ Free(c)
  /\ conversations' =
       IF cookie[c] # NoSid /\ cookie[c] \in DOMAIN conversations
         THEN [s \in DOMAIN conversations \ {cookie[c]} |-> conversations[s]]
         ELSE conversations
  /\ UNCHANGED <<cookie, heap, sf_conn, closed, nconn, app_conn, req, call>>

\* POST /chat of client c, up to the call of get_snowflake_connection
ConcChatStart(c, message) ==
  LET user_text == Strip(IF message = None THEN <<>> ELSE message)
  IN /\ TotalLen(heap) < MaxStored
     /\ Free(c)
     /\ InOrder(c)
     /\ IF user_text = <<>> THEN RejectEmpty(c, c)
        ELSE IF is_off_topic(user_text) THEN Refuse(c, c, user_text)
        ELSE BeginTurn(c, c, user_text)
     /\ UNCHANGED <<sf_conn, closed, nconn, app_conn, call>>

ConcNext ==
  \/ \E c \in Clients : ConcReset(c)
  \/ \E c \in Clients : \E m \in ConcMessageInputs(c) : ConcChatStart(c, m)
  \/ \E r \in Reqs : UseConnection(r)
  \/ \E r \in Reqs : EnterConnect(r)
  \/ \E r \in Reqs : Connect(r)
  \/ \E r \in Reqs : ConnectFails(r)
  \/ \E r \in Reqs, e \in LlmErrors : ModelRaises(r, e)
  \/ \E r \in Reqs, t \in ConcResponses : ModelReturns(r, t)
  \/ \E r \in Reqs : BlockQuery(r)
  \/ \E r \in Reqs, k \in ConcCursors : RunQuery(r, k)
  \/ \E r \in Reqs : FeedBack(r)

ConcSpec == Init /\ [][ConcNext]_vars

(***************************************************************************)
(* Requests of one session served at once: one client, who has loaded the  *)
(* page and so holds a session id, sends two /chat requests without        *)
(* waiting, and resets at any moment.  Thread r serves request r.  The     *)
(* threads may be switched between any two statements of chat(), so its    *)
(* start is taken statement by statement.                                  *)
(***************************************************************************)
SameClient == 1

\* thread r is inside chat()
InFlight(r) == req[r].pc \in {"store", "append", "copy"} \/ Running(r)

\* GET /: the session gets an id on the first visit
Index(c) ==
  /\ cookie[c] = NoSid
  /\ cookie' = [cookie EXCEPT ![c] = FreshSid]
  /\ UNCHANGED <<conversations, heap, sf_conn, closed, nconn, app_conn, req, call>>

\* what a reset of client c that completes now leaves in the records of
\* the turns in flight
Noted(c) ==
  [r \in Reqs |->
     IF req[r].client = c /\ InFlight(r)
       THEN [req[r] EXCEPT !.reset_during = TRUE,
                           !.reset_len = IF @ = -1 /\ req[r].messages # 0
                                           THEN Len(heap[req[r].messages]) ELSE @]
       ELSE req[r]]

\* reset that empties the session's list and keeps its entry
SameResetClears(c) ==
  /\ heap' =
       IF cookie[c] # NoSid /\ cookie[c] \in DOMAIN conversations
         THEN [heap EXCEPT ![conversations[cookie[c]]] = <<>>]
         ELSE heap
  /\ req' = Noted(c)
  /\ UNCHANGED <<cookie, conversations, sf_conn, closed, nconn, app_conn, call>>

\* POST /reset of client c, at any moment
SameReset(c) ==
  /\ conversations' =
       IF cookie[c] # NoSid /\ cookie[c] \in DOMAIN conversations
         THEN [s \in DOMAIN conversations \ {cookie[c]} |-> conversations[s]]
         ELSE conversations
  /\ req' = Noted(c)
  /\ UNCHANGED <<cookie, heap, sf_conn, closed, nconn, app_conn, call>>

\* POST /chat, request r of client c: up to the guardrail
Arrive(r, c, message) ==
  LET user_text == Strip(IF message = None THEN <<>> ELSE message)
  IN /\ req[r].pc = "idle"
     /\ cookie[c] # NoSid
     /\ IF user_text = <<>> THEN RejectEmpty(r, c)
        ELSE IF is_off_topic(user_text) THEN Refuse(r, c, user_text)
        ELSE /\ req' = [req EXCEPT ![r] =
                  [IdleReq EXCEPT !.pc = "store", !.client = c, !.user_text = user_text]]
             /\ UNCHANGED <<cookie, conversations, heap>>
     /\ UNCHANGED <<sf_conn, closed, nconn, app_conn, call>>

\* messages = _get_messages()
GetMessages(r) ==
  LET c == req[r].client
      sid == IF cookie[c] = NoSid THEN FreshSid ELSE cookie[c]
      known == sid \in DOMAIN conversations
      list == IF known THEN conversations[sid] ELSE Len(heap) + 1
  IN /\ req[r].pc = "store"
     /\ cookie' = [cookie EXCEPT ![c] = sid]
     /\ conversations' = IF known THEN conversations ELSE conversations @@ (sid :> list)
     /\ heap' = IF known THEN heap ELSE Append(heap, <<>>)
     /\ req' = [req EXCEPT ![r].messages = list, ![r].pc = "append"]
     /\ UNCHANGED <<sf_conn, closed, nconn, app_conn, call>>

\* messages.append of the user message
AppendUser(r) ==
  /\ req[r].pc = "append"
  /\ heap' = [heap EXCEPT ![req[r].messages] = Append(@, Message("user", req[r].user_text))]
  /\ req' = [req EXCEPT ![r].pc = "copy"]
  /\ UNCHANGED <<cookie, conversations, sf_conn, closed, nconn, app_conn, call>>

\* llm_messages: the copy of the history for the model
CopyHistory(r) ==
  /\ req[r].pc = "copy"
  /\ req' = [req EXCEPT ![r].llm_messages = heap[req[r].messages], ![r].pc = "connect"]
  /\ UNCHANGED <<cookie, conversations, heap, sf_conn, closed, nconn, app_conn, call>>

SameNext ==
  \/ Index(SameClient)
  \/ SameReset(SameClient)
  \/ \E r \in Reqs : \E m \in ConcMessageInputs(r) : Arrive(r, SameClient, m)
  \/ \E r \in Reqs : GetMessages(r)
  \/ \E r \in Reqs : AppendUser(r)
  \/ \E r \in Reqs : CopyHistory(r)
  \/ \E r \in Reqs : UseConnection(r)
  \/ \E r \in Reqs : EnterConnect(r)
  \/ \E r \in Reqs : Connect(r)
  \/ \E r \in Reqs : ConnectFails(r)
  \/ \E r \in Reqs, e \in LlmErrors : ModelRaises(r, e)
  \/ \E r \in Reqs, t \in ConcResponses : ModelReturns(r, t)
  \/ \E r \in Reqs : BlockQuery(r)
  \/ \E r \in Reqs, k \in ConcCursors : RunQuery(r, k)
  \/ \E r \in Reqs : FeedBack(r)

SameSpec == Init /\ [][SameNext]_vars

(***************************************************************************)
(* app.py: the Streamlit script.  One run of the script on what            *)
(* st.chat_input gives; st.session_state.messages is kept in the store      *)
(* under the key AppSession, and the record of the run is req[AppReq],      *)
(* its steps being what the script displays: the call and its argument.     *)
(***************************************************************************)
AppReq == 2
FlaskReq == 1
AppSession == 2

\* error_msg of a blocked candidate: BlockedMsg after a warning sign
AppBlockedMsg == <<"(warning sign) ">> \o BlockedMsg

\* the script from its top to the for loop: the list of the session, its
\* messages displayed, the guardrail and st.stop(), the user message and
\* the copy for the model
AppRun(prompt) ==
  LET known == AppSession \in DOMAIN conversations
      list == IF known THEN conversations[AppSession] ELSE Len(heap) + 1
      old == IF known THEN heap[list] ELSE <<>>
      new == Append(old, Message("user", prompt))
      shown == [k \in 1..Len(old) |-> Step("markdown", old[k].content)]
      run == [IdleReq EXCEPT !.client = AppSession, !.user_text = prompt,
                             !.messages = list, !.steps = shown]
  IN /\ req[AppReq].pc = "idle"
     /\ conversations' = IF known THEN conversations ELSE conversations @@ (AppSession :> list)
     /\ IF prompt = None \/ prompt = <<>>
          THEN /\ heap' = IF known THEN heap ELSE Append(heap, old)
               /\ req' = [req EXCEPT ![AppReq] = [run EXCEPT !.pc = "done"]]
          ELSE IF is_off_topic(prompt)
            THEN /\ heap' = IF known THEN heap ELSE Append(heap, old)
                 /\ req' = [req EXCEPT ![AppReq] =
                      [run EXCEPT !.steps = Append(shown, Step("markdown", RefusalText)),
                                  !.pc = "done"]]
            ELSE /\ heap' = IF known THEN [heap EXCEPT ![list] = new] ELSE Append(heap, new)
                 /\ req' = [req EXCEPT ![AppReq] =
                      [run EXCEPT !.steps = Append(shown, Step("markdown", prompt)),
                                  !.llm_messages = new, !.round = 1, !.pc = "model"]]
     /\ UNCHANGED <<cookie, sf_conn, closed, nconn, app_conn, call>>

\* chat_with_llm raises: nothing catches it, and the run of the script ends
AppModelRaises(exc) ==
  /\ req[AppReq].pc = "model"
  /\ req' = [req EXCEPT ![AppReq].llm_calls = @ + 1, ![AppReq].failures = @ + 1,
                        ![AppReq].raised = exc, ![AppReq].pc = "done"]
  /\ UNCHANGED <<cookie, conversations, heap, sf_conn, closed, nconn, app_conn, call>>

\* chat_with_llm returns response_text: shown and appended; the last of the
\* run when it has no SQL
AppModelReturns(response_text) ==
  LET r == AppReq
      sql_queries == extract_sql(response_text)
      steps == Append(req[r].steps, Step("markdown", response_text))
  IN /\ req[r].pc = "model"
     /\ heap' = [heap EXCEPT ![req[r].messages] = Append(@, Message("assistant", response_text))]
     /\ req' = IF sql_queries = <<>>
                 THEN [req EXCEPT ![r].llm_calls = @ + 1, ![r].response_text = response_text,
                                  ![r].sql_queries = sql_queries,
                                  ![r].steps = steps, ![r].pc = "done"]
                 ELSE [req EXCEPT ![r].llm_calls = @ + 1, ![r].response_text = response_text,
                                  ![r].sql_queries = sql_queries, ![r].qi = 1,
                                  ![r].all_results = <<>>,
                                  ![r].steps = steps, ![r].pc = "queries"]
     /\ UNCHANGED <<cookie, conversations, sf_conn, closed, nconn, app_conn, call>>

\* a candidate that is not safe: the warning, and on to the next
AppBlockQuery ==
  LET r == AppReq
  IN /\ req[r].pc = "queries"
     /\ is_safe_sql_returns(Candidate(r))
     /\ ~is_safe_sql(Candidate(r))
     /\ req' = [req EXCEPT ![r].steps = Append(@, Step("warning", AppBlockedMsg)),
                           ![r].all_results = Append(@, AppBlockedMsg),
                           ![r].failures = @ + 1,
                           ![r].qi = @ + 1, ![r].pc = NextQuery(r)]
     /\ UNCHANGED <<cookie, conversations, heap, sf_conn, closed, nconn, app_conn, call>>

\* a safe candidate: run_query of app.py calls get_snowflake_connection, which
\* st.cache_resource runs once, at the first call, to connect, and whose
\* handle it returns ever after, whatever the handle's state; then run_query
\* of core.py on that handle, its result shown and kept as a result text
AppRunQuery(cursor) ==
  LET r == AppReq
      sql == Candidate(r)
      first == app_conn = NoConn
      conn == IF first THEN nconn + 1 ELSE app_conn
      result == run_query(sql, conn \in closed, cursor, max_rows)
  IN /\ req[r].pc = "queries"
     /\ is_safe_sql_returns(sql)
     /\ is_safe_sql(sql)
     /\ first => nconn < MaxConnects
     /\ nconn' = IF first THEN nconn + 1 ELSE nconn
     /\ app_conn' = conn
     /\ req' = IF result.isdict
                 THEN [req EXCEPT ![r].steps =
                                     Append(@, Step("error", QueryErrorPrefix \o result.error)),
                                  ![r].all_results = Append(@, QueryErrorPrefix \o result.error),
                                  ![r].failures = @ + 1,
                                  ![r].run_calls = Append(@, sql),
                                  ![r].qi = @ + 1, ![r].pc = NextQuery(r)]
                 ELSE [req EXCEPT ![r].steps = Append(@, Step("dataframe", result.rows)),
                                  ![r].all_results =
                                     Append(@, ReprRows(cursor.description, result.rows)),
                                  ![r].run_calls = Append(@, sql),
                                  ![r].qi = @ + 1, ![r].pc = NextQuery(r)]
     /\ UNCHANGED <<cookie, conversations, heap, sf_conn, closed, call>>

\* a safe candidate, and the first call of get_snowflake_connection: connect
\* raises inside run_query of app.py, outside the try of core.py; nothing
\* catches it, nothing is cached, and the run of the script ends
AppConnectFails(exc) ==
  LET r == AppReq
      sql == Candidate(r)
  IN /\ req[r].pc = "queries"
     /\ is_safe_sql_returns(sql)
     /\ is_safe_sql(sql)
     /\ app_conn = NoConn
     /\ req' = [req EXCEPT ![r].failures = @ + 1, ![r].raised = exc, ![r].pc = "done"]
     /\ UNCHANGED <<cookie, conversations, heap, sf_conn, closed, nconn, app_conn, call>>

\* the results fed back to the model, and the next round; after the last
\* round the else branch of the for loop
AppFeedBack ==
  LET r == AppReq
      llm_messages == req[r].llm_messages
                        \o << Message("assistant", req[r].response_text),
                              Message("user", result_message(req[r].all_results)) >>
      steps == Append(req[r].steps, Step("markdown", ExhaustedMsg))
  IN /\ req[r].pc = "feedback"
     /\ req' = IF req[r].round < max_rounds
                 THEN [req EXCEPT ![r].llm_messages = llm_messages,
                                  ![r].round = @ + 1, ![r].pc = "model"]
                 ELSE [req EXCEPT ![r].llm_messages = llm_messages,
                                  ![r].failures = @ + 1,
                                  ![r].steps = steps, ![r].pc = "done"]
     /\ UNCHANGED <<cookie, conversations, heap, sf_conn, closed, nconn, app_conn, call>>

(***************************************************************************)
(* The two front ends on the same inputs: the script runs once, then the   *)
(* Flask app serves one request and is given what the script was given:    *)
(* the same text, from the model the same responses and failure in the     *)
(* same order, from the cursor the same outcomes.  The process holds no    *)
(* handle before its first request: get_snowflake_connection connects.     *)
(***************************************************************************)
\* what chat_with_llm may return: plain text, an unsafe statement and a safe
\* one, an empty fenced region
PairResponses == {RespAnswer, RespDropSelect, RespEmpty}

\* what chat_with_llm returned to the script, in order
AppResponses ==
  IF req[AppReq].messages = 0 THEN <<>>
  ELSE SelectSeq(heap[req[AppReq].messages], LAMBDA m : m.role = "assistant")

\* the outcomes of the script's calls of run_query, in order, as displayed
AppOutcomes ==
  SelectSeq(req[AppReq].steps, LAMBDA st : st.type \in {"error", "dataframe"})

\* the request carries the text the script was given
SamePrompt(message) == req[AppReq].pc = "done" /\ message = req[AppReq].user_text

\* the model's next response to the Flask app is the one the script got at
\* that call, when it got one
SameResponse(response_text) ==
  LET k == req[FlaskReq].llm_calls + 1
  IN IF k <= Len(AppResponses) THEN response_text = AppResponses[k].content
     ELSE ~(k = req[AppReq].llm_calls /\ req[AppReq].raised # <<>>)

\* the model's next call fails for the Flask app as it did for the script
SameFailure(exc) ==
  LET k == req[FlaskReq].llm_calls + 1
  IN /\ k > Len(AppResponses)
     /\ (k = req[AppReq].llm_calls /\ req[AppReq].raised # <<>>) => exc = req[AppReq].raised

\* the cursor does for the Flask app what it did for the script at that call
SameOutcome(cursor) ==
  LET j == Len(req[FlaskReq].run_calls) + 1
      result == run_query(Candidate(FlaskReq), FALSE, cursor, max_rows)
  IN j <= Len(AppOutcomes) =>
       AppOutcomes[j] = IF result.isdict
                          THEN Step("error", QueryErrorPrefix \o result.error)
                          ELSE Step("dataframe", result.rows)

\* POST /chat of the one client with the text the script was given, up to
\* the call of get_snowflake_connection
PairChatStart(message) ==
  LET user_text == Strip(IF message = None THEN <<>> ELSE message)
  IN /\ req[FlaskReq].pc = "idle"
     /\ SamePrompt(message)
     /\ IF user_text = <<>> THEN RejectEmpty(FlaskReq, 1)
        ELSE IF is_off_topic(user_text) THEN Refuse(FlaskReq, 1, user_text)
        ELSE BeginTurn(FlaskReq, 1, user_text)
     /\ UNCHANGED <<sf_conn, closed, nconn, app_conn, call>>

\* the steps of chat() that take something from outside, given what the
\* script was given
PairModelRaises(exc) == SameFailure(exc) /\ ModelRaises(FlaskReq, exc)
PairModelReturns(response_text) ==
  SameResponse(response_text) /\ ModelReturns(FlaskReq, response_text)
PairRunQuery(cursor) == SameOutcome(cursor) /\ RunQuery(FlaskReq, cursor)

PairNext ==
  \/ \E m \in MessageInputs : AppRun(m)
  \/ \E e \in LlmErrors : AppModelRaises(e)
  \/ \E t \in PairResponses : AppModelReturns(t)
  \/ AppBlockQuery
  \/ \E k \in Cursors : AppRunQuery(k)
  \/ \E e \in ConnectErrors : AppConnectFails(e)
  \/ AppFeedBack
  \/ \E m \in MessageInputs : PairChatStart(m)
  \/ EnterConnect(FlaskReq)
  \/ Connect(FlaskReq)
  \/ ConnectFails(FlaskReq)
  \/ \E e \in LlmErrors : PairModelRaises(e)
  \/ \E t \in PairResponses : PairModelReturns(t)
  \/ BlockQuery(FlaskReq)
  \/ \E k \in Cursors : PairRunQuery(k)
  \/ FeedBack(FlaskReq)

PairSpec == Init /\ [][PairNext]_vars

(***************************************************************************)
(* Direct calls of core.py, as test_core.py makes them                     *)
(***************************************************************************)
\* An argument is made of at most MaxPieces pieces.
MaxPieces == 3

\* key words in some cases, white space, a terminator, the comment markers,
\* a line comment and a block comment, an identifier, a quoted literal, the
\* words of DANGEROUS_KEYWORDS; and beyond ASCII: a form feed (white space
\* that ends no line), a dangerous word after a letter with an accent, and
\* select spelled with the long s, which str.upper turns into S
Pieces ==
  { <<"\f">>,
    <<"é","D","R","O","P">>,
    <<"U+017F","e","l","e","c","t">>,
    <<"-","-","d","r","o","p","\n">>,
    <<"/","*","d","r","o","p","*","/">>,
    <<"S","E","L","E","C","T">>,
    <<"S","e","l","e","c","t">>,
    <<"W","I","T","H">>,
    <<" ">>,
    <<";">>,
    <<"\n">>,
    <<"-","-">>,
    <<"/","*">>,
    <<"*","/">>,
    <<"x">>,
    <<"_">>,
    <<"'","u","p","d","a","t","e","'">>,
    <<"D","r","o","p">>,
    <<"D","R","O","P">>,
    <<"D","E","L","E","T","E">>,
    <<"I","N","S","E","R","T">>,
    <<"U","P","D","A","T","E">>,
    <<"A","L","T","E","R">>,
    <<"C","R","E","A","T","E">>,
    <<"T","R","U","N","C","A","T","E">>,
    <<"R","E","P","L","A","C","E">>,
    <<"M","E","R","G","E">>,
    <<"G","R","A","N","T">>,
    <<"R","E","V","O","K","E">>,
    <<"E","X","E","C">>,
    <<"E","X","E","C","U","T","E">> }

RECURSIVE Texts(_)
Texts(n) ==
  IF n = 0 THEN { <<>> }
  ELSE LET shorter == Texts(n - 1)
       IN shorter \cup {t \o p : t \in shorter, p \in Pieces}

\* the arguments is_safe_sql is called with
SqlInputs == Texts(MaxPieces)

\* the disallowed terms in some cases, white space, punctuation, and word
\* characters that make a term part of a longer word, one of them a letter
\* with an accent; and kill spelled with the Kelvin sign, which
\* re.IGNORECASE takes for a k
TopicPieces ==
  OFF_TOPIC_PATTERNS \cup
  { <<"é">>,
    <<"U+212A","i","l","l">>,
    <<"B","o","m","b">>,
    <<"D","R","U","G","S">>,
    <<" ">>,
    <<".">>,
    <<"s">>,
    <<"_">>,
    <<"1">> }

RECURSIVE TopicTexts(_)
TopicTexts(n) ==
  IF n = 0 THEN { <<>> }
  ELSE LET shorter == TopicTexts(n - 1)
       IN shorter \cup {t \o p : t \in shorter, p \in TopicPieces}

\* the arguments is_off_topic is called with
TopicInputs == TopicTexts(MaxPieces)

\* a fenced region with the tag and the content given
Region(tag, content) == Fence \o tag \o <<"\n">> \o content \o <<"\n">> \o Fence

\* whole regions tagged sql, sqlite, python or not at all, one of them empty;
\* an opening with its tag, a fence, a tag alone, white space (a form feed
\* too) and text
FencePieces ==
  { Region(<<"s","q","l">>, <<"x">>),
    Region(<<"s","q","l">>, <<"y">>),
    FenceSql \o Fence,
    Region(<<"s","q","l","i","t","e">>, <<"x">>),
    Region(<<"p","y","t","h","o","n">>, <<"x">>),
    Region(<<>>, <<"x">>),
    FenceSql,
    Fence,
    <<"s","q","l">>,
    <<"\n">>,
    <<" ">>,
    <<"\f">>,
    <<"z">> }

RECURSIVE FenceTexts(_)
FenceTexts(n) ==
  IF n = 0 THEN { <<>> }
  ELSE LET shorter == FenceTexts(n - 1)
       IN shorter \cup {t \o p : t \in shorter, p \in FencePieces}

\* the arguments extract_sql is called with
FenceInputs == FenceTexts(MaxPieces)

\* A cursor holds at most MaxFetched rows.
MaxFetched == 3

ColumnNames == { <<"A">>, <<"B">> }
\* an int, the str of the same digit, and a str with a single quote, a
\* backslash and a line break
CellValues == { IntCell(1), StrCell(<<"1">>), StrCell(<<"'", "\\", "\n">>) }

\* cursor.description, as the names of one or two columns; two columns may
\* have one name (SELECT 1 AS a, 2 AS a)
Descriptions == { <<c>> : c \in ColumnNames } \cup (ColumnNames \X ColumnNames)

\* the sequences of at most n rows of width w
RECURSIVE RowLists(_, _)
RowLists(w, n) ==
  IF n = 0 THEN { <<>> }
  ELSE LET shorter == RowLists(w, n - 1)
       IN shorter \cup {Append(l, row) : l \in shorter, row \in [1..w -> CellValues]}

\* what the cursor may do in a direct call of run_query
CoreCursors ==
  { [raises |-> TRUE, msg |-> <<"Connection lost">>, description |-> <<>>, rows |-> <<>>] }
  \cup { [raises |-> FALSE, msg |-> <<>>, description |-> d, rows |-> l] :
           d \in Descriptions, l \in RowLists(2, MaxFetched) \cup RowLists(1, MaxFetched) }

\* the max_rows argument: <<>> when the call gives none
CapInputs == { <<>>, <<1>>, <<2>> }

\* the arguments run_query is called with; a cursor's rows are as wide as its
\* description
RunQueryInputs ==
  { [sql |-> SqlSelect, conn_closed |-> b, cursor |-> k, cap |-> n] :
      b \in BOOLEAN,
      k \in {k \in CoreCursors : \A i \in 1..Len(k.rows) : Len(k.rows[i]) = Len(k.description)},
      n \in CapInputs }

\* the call is_safe_sql(sql), is_off_topic(text), extract_sql(text) or
\* run_query(sql, conn[, max_rows]) is made
CoreInit ==
  /\ cookie = [c \in Clients |-> NoSid]
  /\ conversations = << >>
  /\ heap = << >>
  /\ sf_conn = NoConn
  /\ closed = {}
  /\ nconn = 0
  /\ app_conn = NoConn
  /\ req = [r \in Reqs |-> IdleReq]
  /\ call \in {[fn |-> "is_safe_sql", arg |-> sql, at |-> "called", ret |-> FALSE] :
                 sql \in SqlInputs}
             \cup {[fn |-> "is_off_topic", arg |-> text, at |-> "called", ret |-> FALSE] :
                     text \in TopicInputs}
             \cup {[fn |-> "extract_sql", arg |-> text, at |-> "called", ret |-> <<>>] :
                     text \in FenceInputs}
             \cup {[fn |-> "run_query", arg |-> a, at |-> "called", ret |-> <<>>] :
                     a \in RunQueryInputs}

\* is_safe_sql that looks at the first word only
IsSafeSqlFirstWordOnly ==
  /\ call.fn = "is_safe_sql"
  /\ call.at = "called"
  /\ is_safe_sql_returns(call.arg)
  /\ call' = [call EXCEPT !.at = "returned",
                          !.ret = UpperText(FirstToken(Strip(RStripSemi(_strip_sql_comments(call.arg)))))
                                    \in { <<"S","E","L","E","C","T">>, <<"W","I","T","H">> }]
  /\ UNCHANGED <<cookie, conversations, heap, sf_conn, closed, nconn, app_conn, req>>

\* is_safe_sql returns its verdict
IsSafeSqlReturns ==
  /\ call.fn = "is_safe_sql"
  /\ call.at = "called"
  /\ is_safe_sql_returns(call.arg)
  /\ call' = [call EXCEPT !.at = "returned", !.ret = is_safe_sql(call.arg)]
  /\ UNCHANGED <<cookie, conversations, heap, sf_conn, closed, nconn, app_conn, req>>

\* is_safe_sql does not return: the first loop of _strip_sql_comments runs
\* forever
IsSafeSqlHangs ==
  /\ call.fn = "is_safe_sql"
  /\ call.at = "called"
  /\ ~is_safe_sql_returns(call.arg)
  /\ call' = [call EXCEPT !.at = "hung"]
  /\ UNCHANGED <<cookie, conversations, heap, sf_conn, closed, nconn, app_conn, req>>

\* is_off_topic that searches the terms without the word boundaries
IsOffTopicNoBoundary ==
  /\ call.fn = "is_off_topic"
  /\ call.at = "called"
  /\ call' = [call EXCEPT !.at = "returned",
                          !.ret = \E i \in 1..Len(call.arg), w \in OFF_TOPIC_PATTERNS :
                                    StartsWithAt(FoldText(call.arg), i, FoldText(w))]
  /\ UNCHANGED <<cookie, conversations, heap, sf_conn, closed, nconn, app_conn, req>>

\* is_off_topic returns whether the pattern was found
IsOffTopicReturns ==
  /\ call.fn = "is_off_topic"
  /\ call.at = "called"
  /\ call' = [call EXCEPT !.at = "returned", !.ret = is_off_topic(call.arg)]
  /\ UNCHANGED <<cookie, conversations, heap, sf_conn, closed, nconn, app_conn, req>>

\* extract_sql returns the matches
ExtractSqlReturns ==
  /\ call.fn = "extract_sql"
  /\ call.at = "called"
  /\ call' = [call EXCEPT !.at = "returned", !.ret = extract_sql(call.arg)]
  /\ UNCHANGED <<cookie, conversations, heap, sf_conn, closed, nconn, app_conn, req>>

\* run_query returns the records or the error value
RunQueryReturns ==
  /\ call.fn = "run_query"
  /\ call.at = "called"
  /\ call' = [call EXCEPT !.at = "returned",
                          !.ret = run_query(call.arg.sql, call.arg.conn_closed, call.arg.cursor,
                                            IF call.arg.cap = <<>> THEN max_rows
                                                                   ELSE call.arg.cap[1])]
  /\ UNCHANGED <<cookie, conversations, heap, sf_conn, closed, nconn, app_conn, req>>

CoreNext ==
  \/ IsSafeSqlReturns
  \/ IsSafeSqlHangs
  \/ IsOffTopicReturns
  \/ ExtractSqlReturns
  \/ RunQueryReturns

CoreSpec == CoreInit /\ [][CoreNext]_vars

(***************************************************************************)
(* Properties                                                              *)
(***************************************************************************)
Last(s) == s[Len(s)]

Terminal(step) == step.type \in {"answer", "error"}

\* the Steps of the response of request r, once it has one
Returned(r) == req[r].response.status = 200

\* the Steps of the current round's candidates that the for loop has passed
RoundStep(r, k) == req[r].steps[Len(req[r].steps) - (req[r].qi - 1) + k]

InQueries(r) == req[r].pc \in {"queries", "feedback", "hung"}

\* a synthetic feedback message of chat()
IsFeedback(m) == m.role = "user" /\ StartsWith(m.content, FeedbackHeader)

\* the visible sequence of the session of request r's client, <<>> when the
\* store has no entry for it
Visible(r) ==
  LET sid == cookie[req[r].client]
  IN IF sid # NoSid /\ sid \in DOMAIN conversations THEN heap[conversations[sid]] ELSE <<>>

\* the list the turn of request r appends to is the one the store holds
\* for its session: no reset has removed it
Held(r) ==
  LET sid == cookie[req[r].client]
  IN sid # NoSid /\ sid \in DOMAIN conversations /\ conversations[sid] = req[r].messages

\* no other request of its session, turn or reset, has been served since
\* the turn of request r began
Undisturbed(r) == Held(r) /\ ~req[r].beside

\* C1: run_query is called only on a candidate for which is_safe_sql returned
\* true, and every candidate for which it returned false was given the one
\* query_error Step with the blocked-for-safety message and was not run.
C1_ExecutorOnlyOnSafe ==
  \A r \in Reqs :
    /\ \A k \in 1..Len(req[r].run_calls) :
         is_safe_sql_returns(req[r].run_calls[k]) /\ is_safe_sql(req[r].run_calls[k])
    /\ InQueries(r) =>
         \A k \in 1..(req[r].qi - 1) :
           (is_safe_sql_returns(req[r].sql_queries[k]) /\ ~is_safe_sql(req[r].sql_queries[k])) =>
              /\ RoundStep(r, k).type = "query_error"
              /\ RoundStep(r, k).content = BlockedMsg
              /\ req[r].all_results[k] = BlockedMsg

C1_Witness ==
  \E r \in Reqs :
    /\ req[r].pc = "feedback"
    /\ req[r].sql_queries = <<SqlDrop, SqlSelect>>
    /\ req[r].run_calls = <<SqlSelect>>
    /\ RoundStep(r, 1).type = "query_error"

\* C2: the Steps a /chat turn returns are not empty, the last one is an
\* answer or an error, and none before the last is.
C2_StepsEndInOneTerminal ==
  \A r \in Reqs :
    Returned(r) =>
      /\ req[r].steps # <<>>
      /\ Terminal(Last(req[r].steps))
      /\ \A i \in 1..(Len(req[r].steps) - 1) : ~Terminal(req[r].steps[i])

C2_Witness ==
  \E r \in Reqs :
    /\ Returned(r)
    /\ req[r].round = max_rounds
    /\ Last(req[r].steps).type = "error"
    /\ Len(req[r].steps) > max_rounds

\* a turn that has begun and has not ended
InTurn(r) == req[r].pc \notin {"idle", "done"}

\* C3: every turn completes, whatever the model answers, when every call of
\* the model and of the executor returns: a turn that has not ended is within
\* its five rounds and its thread has a next step to take.
C3_TurnCompletes ==
  \A r \in Reqs :
    InTurn(r) => (req[r].round <= max_rounds /\ ENABLED TurnStep(r))

\* the fifth round of the turn of request r, its response with fenced SQL
FifthSqlRound(r) ==
  /\ req[r].round = max_rounds
  /\ req[r].pc \in {"queries", "feedback", "hung", "done"}
  /\ req[r].sql_queries # <<>>
  /\ req[r].raised = <<>>

\* C4: a turn whose five rounds all had fenced SQL ends, and ends with the
\* final error Step of exhaustion after exactly five calls of the model; no
\* turn calls the model more than five times.
C4_FiveSqlRoundsExhaust ==
  \A r \in Reqs :
    /\ req[r].llm_calls <= max_rounds
    /\ FifthSqlRound(r) =>
         /\ req[r].pc = "done" \/ ENABLED TurnStep(r)
         /\ req[r].pc = "done" =>
              /\ Last(req[r].steps).type = "error"
              /\ Last(req[r].steps).content = ExhaustedMsg
              /\ req[r].llm_calls = max_rounds

\* C5: a request whose text is off topic is answered with the one answer
\* Step of the refusal, and neither the model nor the executor is called.
C5_OffTopicRefused ==
  \A r \in Reqs :
    is_off_topic(req[r].user_text) =>
      /\ req[r].pc = "done"
      /\ Returned(r)
      /\ req[r].steps = <<Step("answer", RefusalText)>>
      /\ req[r].llm_calls = 0
      /\ req[r].run_calls = <<>>

C5_Witness ==
  \E r \in Reqs : is_off_topic(req[r].user_text) /\ req[r].pc = "done"

\* C6: no message list of the store, at any moment, holds a synthetic
\* feedback message; those are in the turn's own llm_messages only.
C6_NoFeedbackVisible ==
  \A l \in 1..Len(heap) : \A i \in 1..Len(heap[l]) : ~IsFeedback(heap[l][i])

C6_Witness ==
  \E r \in Reqs :
    /\ req[r].pc = "done"
    /\ Returned(r)
    /\ Last(req[r].steps).type = "answer"
    /\ \E i \in 1..Len(req[r].llm_messages) : IsFeedback(req[r].llm_messages[i])

\* the responses of the turn of request r that had fenced SQL, in order
SqlResponses(r) ==
  SelectSeq(req[r].steps, LAMBDA st : st.type = "llm_response")

\* a turn that the model's answer has just ended: its session's visible
\* sequence is the list the turn appended to, and no other turn of the
\* session has been inside chat() since it began
Answered(r) ==
  /\ req[r].pc = "done"
  /\ Returned(r)
  /\ req[r].llm_calls > 0
  /\ Last(req[r].steps).type = "answer"
  /\ Visible(r) = heap[req[r].messages]
  /\ ~req[r].beside

\* C7 as stated: after a turn that produced an answer Step the last two
\* entries of the session's visible sequence are the user's text and the
\* model's final text, and the sequence holds no feedback.  (Read for the
\* turns the model answered; the guardrail's refusal stores nothing at all.)
C7_LastTwoAreUserAndAnswer ==
  \A r \in Reqs :
    Answered(r) =>
      LET v == Visible(r)
      IN /\ Len(v) >= 2
         /\ v[Len(v) - 1] = Message("user", req[r].user_text)
         /\ v[Len(v)] = Message("assistant", Last(req[r].steps).content)
         /\ \A i \in 1..Len(v) : ~IsFeedback(v[i])

\* C7 amended: after a turn that the model answered, with no other request
\* of the session in between, the visible sequence ends with the user's
\* text, then the response of each round that had SQL, then the final text;
\* the last two entries are the user's text and the final text when the
\* first response was the answer; the sequence holds no feedback.
C7_TurnTail ==
  \A r \in Reqs :
    Answered(r) =>
      LET v == Visible(r)
          k == Len(SqlResponses(r))
          base == Len(v) - k - 1
      IN /\ base >= 1
         /\ v[base] = Message("user", req[r].user_text)
         /\ \A i \in 1..k : v[base + i] = Message("assistant", SqlResponses(r)[i].content)
         /\ v[Len(v)] = Message("assistant", Last(req[r].steps).content)
         /\ k = 0 => v[Len(v) - 1] = Message("user", req[r].user_text)
         /\ \A i \in 1..Len(v) : ~IsFeedback(v[i])

C7_Witness ==
  \E r \in Reqs :
    /\ Answered(r)
    /\ Len(SqlResponses(r)) = 2
    /\ Len(Visible(r)) = 4

\* C8: when a call of the model raises, the turn is over with that one
\* error Step, carrying the failure's message, as its last Step: the call is
\* not made again and nothing else is called.
C8_ModelFailureEndsTurn ==
  \A r \in Reqs :
    req[r].raised # <<>> =>
      /\ req[r].pc = "done"
      /\ Returned(r)
      /\ Last(req[r].steps).type = "error"
      /\ Last(req[r].steps).content = req[r].raised
      /\ Len(SelectSeq(req[r].steps, LAMBDA st : st.type = "error")) = 1
      /\ req[r].llm_calls = req[r].round

C8_Witness ==
  \E r \in Reqs : req[r].raised # <<>> /\ req[r].round = 3 /\ req[r].run_calls # <<>>

\* the Steps the client of request r gets to see
Observable(r) == IF Returned(r) THEN req[r].steps ELSE <<>>

\* C9: every failure of a turn is one Step of its response: the response of
\* a finished request has as many query_error and error Steps as failures
\* occurred.
C9_EveryFailureOneStep ==
  \A r \in Reqs :
    req[r].pc = "done" =>
      req[r].failures
        = Len(SelectSeq(Observable(r), LAMBDA st : st.type \in {"query_error", "error"}))

\* C10: a blocked candidate does not end its round: after it the thread
\* goes on with the other candidates, the feedback and the next round, up to
\* the answer or error that ends the turn.
C10_BlockedRoundGoesOn ==
  \A r \in Reqs :
    (/\ InQueries(r)
     /\ \E k \in 1..(req[r].qi - 1) :
          is_safe_sql_returns(req[r].sql_queries[k]) /\ ~is_safe_sql(req[r].sql_queries[k]))
      => ENABLED TurnStep(r)

\* C11: run_query gives every exception of the cursor back as an error value
\* with the exception's message and no records; the loop makes of it the one
\* query_error Step with that message and the result text "Query error: " and
\* the message, and goes on to the next candidate without ending the turn.
C11_ExecutorErrorSurfaced ==
  [][\A r \in Reqs, k \in Cursors :
       (RunQuery(r, k) /\ (k.raises \/ req[r].conn \in closed)) =>
         LET msg == IF req[r].conn \in closed THEN ConnClosedMsg ELSE k.msg
             result == run_query(Candidate(r), req[r].conn \in closed, k, max_rows)
         IN /\ DOMAIN result = {"isdict", "error"}
            /\ result.error = msg
            /\ Len(req'[r].steps) = Len(req[r].steps) + 1
            /\ SubSeq(req'[r].steps, 1, Len(req[r].steps)) = req[r].steps
            /\ Last(req'[r].steps).type = "query_error"
            /\ Last(req'[r].steps).content = msg
            /\ req'[r].all_results = Append(req[r].all_results, QueryErrorPrefix \o msg)
            /\ req'[r].run_calls = Append(req[r].run_calls, Candidate(r))
            /\ req'[r].qi = req[r].qi + 1
            /\ req'[r].pc = NextQuery(r)
            /\ req'[r].response = req[r].response]_vars

C11_Witness ==
  \E r \in Reqs :
    /\ req[r].pc = "queries"
    /\ req[r].sql_queries = <<SqlSelect, SqlDrop, SqlComment>>
    /\ req[r].qi = 3
    /\ RoundStep(r, 1).type = "query_error"
    /\ RoundStep(r, 1).content = <<"SQL compilation error">>
    /\ req[r].all_results[1] = QueryErrorPrefix \o <<"SQL compilation error">>
    /\ RoundStep(r, 2).content = BlockedMsg

\* C12: when the first response of a turn has no fenced SQL, the turn's
\* response is the one answer Step with that response as its content, after
\* one call of the model and no call of the executor.
C12_PlainFirstResponse ==
  \A r \in Reqs :
    (/\ req[r].llm_calls >= 1
     /\ req[r].round = 1
     /\ req[r].raised = <<>>
     /\ extract_sql(req[r].response_text) = <<>>) =>
      /\ req[r].pc = "done"
      /\ Returned(r)
      /\ req[r].steps = <<Step("answer", req[r].response_text)>>
      /\ req[r].llm_calls = 1
      /\ req[r].run_calls = <<>>

C12_Witness ==
  \E r \in Reqs :
    /\ req[r].pc = "done"
    /\ req[r].llm_calls = 1
    /\ req[r].steps = <<Step("answer", RespAnswer)>>

StepTypes == {"answer", "llm_response", "query_result", "query_error", "error"}

\* st is the Step of the candidate sql: a result or an error, the blocked
\* message exactly when the candidate is not safe
CandidateStep(sql, st) ==
  /\ st.type \in {"query_result", "query_error"}
  /\ is_safe_sql_returns(sql)
  /\ (~is_safe_sql(sql)) <=> (st.type = "query_error" /\ st.content = BlockedMsg)

\* the number of blocks when the Steps from index i on are blocks, each an
\* llm_response Step and then one Step for each candidate extracted from its
\* content, in order; -1 when they are not
RECURSIVE Blocks(_, _)
Blocks(steps, i) ==
  IF i > Len(steps) THEN 0
  ELSE IF steps[i].type # "llm_response" THEN -1
  ELSE LET qs == extract_sql(steps[i].content)
           n == Len(qs)
       IN IF n = 0 \/ i + n > Len(steps) THEN -1
          ELSE IF \E k \in 1..n : ~CandidateStep(qs[k], steps[i + k]) THEN -1
          ELSE LET rest == Blocks(steps, i + n + 1)
               IN IF rest < 0 THEN -1 ELSE rest + 1

\* C13: the Steps of the response of a turn that was not refused are at most
\* five blocks and then one terminal Step; a block is an llm_response Step
\* followed by one query_result or query_error Step for each candidate of
\* that response, in extraction order; every type is one of the five.
C13_StepsAreBlocksThenTerminal ==
  \A r \in Reqs :
    (Returned(r) /\ req[r].llm_calls > 0) =>
      /\ \A i \in 1..Len(req[r].steps) : req[r].steps[i].type \in StepTypes
      /\ Terminal(Last(req[r].steps))
      /\ Blocks(SubSeq(req[r].steps, 1, Len(req[r].steps) - 1), 1) \in 0..max_rounds

C13_Witness ==
  \E r \in Reqs :
    /\ Returned(r)
    /\ Len(SqlResponses(r)) = max_rounds
    /\ req[r].steps[1].content = RespDropSelect
    /\ req[r].steps[2].type = "query_error"
    /\ req[r].steps[3].type = "query_result"
    /\ Last(req[r].steps).type = "error"

\* C14: when the model is first called in a turn, its input is the visible
\* sequence of the session as it is then: what earlier turns left there, in
\* order, and the new user message last; no feedback message is in it.
\* (Read for a turn that no other request of its session is served beside:
\* no turn, and no reset, which takes the turn's list from the session.)
C14_FirstInputIsVisible ==
  \A r \in Reqs :
    (req[r].pc = "model" /\ req[r].round = 1 /\ Undisturbed(r)) =>
      /\ req[r].llm_calls = 0
      /\ req[r].llm_messages = Visible(r)
      /\ Last(req[r].llm_messages) = Message("user", req[r].user_text)
      /\ \A i \in 1..Len(req[r].llm_messages) : ~IsFeedback(req[r].llm_messages[i])

\* the turn before had a round with SQL, so a feedback message of its own
C14_Witness ==
  \E r \in Reqs :
    /\ req[r].pc = "model"
    /\ req[r].round = 1
    /\ Len(req[r].llm_messages) = 3
    /\ req[r].llm_messages[2].role = "assistant"
    /\ extract_sql(req[r].llm_messages[2].content) # <<>>

\* C15: reset removes the entry of the session from the store and nothing
\* else, and succeeds whenever it is called, also for a session with no id or
\* no entry, where it changes nothing; so a second reset leaves the store as
\* the first one left it.
C15_ResetRemovesEntry ==
  /\ [](Serving => \A c \in Clients : ENABLED Reset(c))
  /\ [][\A c \in Clients :
          Reset(c) =>
            /\ cookie[c] \notin DOMAIN conversations'
            /\ DOMAIN conversations' = DOMAIN conversations \ {cookie[c]}
            /\ \A sid \in DOMAIN conversations' : conversations'[sid] = conversations[sid]
            /\ (cookie[c] = NoSid \/ cookie[c] \notin DOMAIN conversations)
                 => conversations' = conversations
            /\ UNCHANGED <<cookie, heap, req>>]_vars

\* a session whose entry a reset has removed, where reset can be called again
C15_Witness ==
  \E c \in Clients :
    /\ Serving
    /\ cookie[c] # NoSid
    /\ cookie[c] \notin DOMAIN conversations
    /\ DOMAIN conversations # {}

\* C16: the turn that follows a reset of its session starts from an empty
\* history: its list holds, and the model gets at its first call, the new
\* user message and nothing else.
C16_FreshAfterReset ==
  [][\A r \in Reqs :
       /\ req[r].pc \in {"connect", "connecting"} =>
            req'[r].llm_messages = req[r].llm_messages
       /\ \A c \in Clients, m \in MessageInputs :
            (/\ ChatStart(r, c, m)
             /\ req'[r].pc = "connect"
             /\ cookie[c] # NoSid
             /\ cookie[c] \notin DOMAIN conversations) =>
              /\ req'[r].llm_messages = <<Message("user", Strip(m))>>
              /\ heap'[req'[r].messages] = <<Message("user", Strip(m))>>
              /\ req'[r].llm_calls = 0]_vars

\* the first call of the model in a turn after a reset that removed a
\* history of two messages
C16_Witness ==
  \E r \in Reqs :
    /\ req[r].pc = "model"
    /\ req[r].llm_calls = 0
    /\ Len(req[r].llm_messages) = 1
    /\ req[r].messages = 2
    /\ Len(heap[1]) >= 2
    /\ cookie[req[r].client] = 1
    /\ Cardinality(Sids) = 1

\* C18: a /chat request whose message is missing, null, empty or only white
\* space is answered with status 400 and the error value; it has no Steps,
\* calls neither the model nor the executor, and leaves the sessions and the
\* store as they were.
C18_EmptyRejected ==
  /\ [](\A r \in Reqs :
          req[r].response.status = 400 =>
            /\ req[r].pc = "done"
            /\ req[r].response.error = EmptyMessageError
            /\ req[r].steps = <<>>
            /\ req[r].llm_calls = 0
            /\ req[r].run_calls = <<>>)
  /\ [][\A r \in Reqs, c \in Clients, m \in MessageInputs :
          (ChatStart(r, c, m) /\ (m = None \/ Strip(m) = <<>>)) =>
            /\ req'[r].response.status = 400
            /\ UNCHANGED <<cookie, conversations, heap>>]_vars

\* a rejected request of a client with no session, while the store holds
\* another session's messages
C18_Witness ==
  \E r \in Reqs :
    /\ req[r].response.status = 400
    /\ cookie[req[r].client] = NoSid
    /\ heap # <<>>

\* the visible sequence of the session of client c
SessionView(c) ==
  IF cookie[c] # NoSid /\ cookie[c] \in DOMAIN conversations
    THEN heap[conversations[cookie[c]]]
    ELSE <<>>

\* a user message is the text client c types
OwnText(c, m) == m.role = "user" => m.content = Strip(ConcText[c])

\* C17: with the turns and resets of different sessions interleaved, the
\* visible sequence of a session holds, and its turn gives the model, only
\* user messages of its own client; the list a turn appends to is no other
\* session's; and the sequence changes only in a step of its own session,
\* which leaves it, appends to it a message of its own turn or removes it,
\* as it would with no other session there.
C17_NoCrossSession ==
  /\ [](\A c \in Clients :
          /\ \A i \in 1..Len(SessionView(c)) : OwnText(c, SessionView(c)[i])
          /\ \A i \in 1..Len(req[c].llm_messages) :
               IsFeedback(req[c].llm_messages[i]) \/ OwnText(c, req[c].llm_messages[i])
          /\ \A d \in Clients \ {c} :
               (req[c].messages # 0 /\ cookie[d] \in DOMAIN conversations)
                 => conversations[cookie[d]] # req[c].messages)
  /\ [][\A c \in Clients :
          /\ SessionView(c)' # SessionView(c) => (req'[c] # req[c] \/ ConcReset(c))
          /\ req'[c] # req[c] =>
               SessionView(c)' \in
                 { SessionView(c),
                   Append(SessionView(c), Message("user", req'[c].user_text)),
                   Append(SessionView(c), Message("assistant", req'[c].response_text)) }
          /\ ConcReset(c) => SessionView(c)' = <<>>]_vars

\* the session of client c was reset, its messages still on the heap, and
\* the turn of client d is at its queries with its sequence in place
C17_Witness ==
  \E c \in Clients, d \in Clients :
    /\ c # d
    /\ cookie[c] # NoSid
    /\ cookie[c] \notin DOMAIN conversations
    /\ req[d].pc = "queries"
    /\ Len(SessionView(d)) >= 2
    /\ Len(heap) = 2
    /\ heap[1] # <<>>
    /\ heap[2] # <<>>

\* What a statement is without its leading comments: white space, line
\* comments (up to the next line break, or to the end when there is none) and
\* block comments (up to the first closing marker), in any order.
RECURSIVE SkipLeading(_)
SkipLeading(s) ==
  LET t == LStrip(s)
      nl == Find(t, <<"\n">>)
      end == Find(t, <<"*", "/">>)
  IN IF StartsWith(t, <<"-", "-">>)
       THEN IF nl = 0 THEN <<>> ELSE SkipLeading(Slice(t, nl + 1, Len(t)))
     ELSE IF StartsWith(t, <<"/", "*">>) /\ end # 0
       THEN SkipLeading(Slice(t, end + 2, Len(t)))
     ELSE t

\* without its trailing terminators and white space
RECURSIVE DropTrailing(_)
DropTrailing(s) ==
  IF s # <<>> /\ (s[Len(s)] = ";" \/ IsSpace(s[Len(s)]))
    THEN DropTrailing(SubSeq(s, 1, Len(s) - 1))
    ELSE s

Statement(s) == DropTrailing(SkipLeading(s))

\* the first token of the statement, case folded; <<>> when there is none
LeadToken(s) == UpperText(FirstToken(Statement(s)))

AllowedFirst == { <<"S","E","L","E","C","T">>, <<"W","I","T","H">> }

\* C19: is_safe_sql returns false for every text whose first token, with
\* the leading comments and the trailing terminators off and the case
\* folded, is not SELECT or WITH; also when no token is left at all.
C19_NonSelectRejected ==
  (/\ call.fn = "is_safe_sql"
   /\ call.at # "called"
   /\ LeadToken(call.arg) \notin AllowedFirst) =>
    (call.at = "returned" /\ call.ret = FALSE)

\* C20 as stated: a text that holds one of the dangerous words as a whole
\* word anywhere, in any case, is not given the verdict true.
C20_DangerousAnywhereRejected ==
  (/\ call.fn = "is_safe_sql"
   /\ call.at = "returned"
   /\ SearchWholeWord(call.arg, DANGEROUS_KEYWORDS)) =>
    call.ret = FALSE

\* C20 amended: is_safe_sql returns false for every text that holds one of
\* the dangerous words as a whole word, in any case, anywhere in what is left
\* of it without its leading comments and trailing terminators, also when the
\* first token is SELECT.
C20_DangerousInStatementRejected ==
  (/\ call.fn = "is_safe_sql"
   /\ call.at # "called"
   /\ SearchWholeWord(Statement(call.arg), DANGEROUS_KEYWORDS)) =>
    (call.at = "returned" /\ call.ret = FALSE)

C20_Witness ==
  /\ call.fn = "is_safe_sql"
  /\ call.at = "returned"
  /\ call.arg = <<"S","E","L","E","C","T"," ","'","u","p","d","a","t","e","'">>
  /\ LeadToken(call.arg) \in AllowedFirst
  /\ call.ret = FALSE

\* every leading line comment of s is ended by a line break
RECURSIVE LeadingClosed(_)
LeadingClosed(s) ==
  LET t == LStrip(s)
      nl == Find(t, <<"\n">>)
      end == Find(t, <<"*", "/">>)
  IN IF StartsWith(t, <<"-", "-">>)
       THEN nl # 0 /\ LeadingClosed(Slice(t, nl + 1, Len(t)))
     ELSE IF StartsWith(t, <<"/", "*">>) /\ end # 0
       THEN LeadingClosed(Slice(t, end + 2, Len(t)))
     ELSE TRUE

\* C21: the verdict is_safe_sql returns on a text whose leading line comments
\* are each ended by a line break is the verdict on its statement alone, the
\* text without its leading line and block comments, in whatever order they
\* come, and without its trailing terminators and white space.
C21_CommentsKeepVerdict ==
  (/\ call.fn = "is_safe_sql"
   /\ call.at = "returned"
   /\ LeadingClosed(call.arg)) =>
    call.ret = is_safe_sql(Statement(call.arg))

\* the words of s: its longest runs of word characters
WordsOf(s) ==
  { Slice(s, ij[1], ij[2]) : ij \in
      { ij \in (1..Len(s)) \X (1..Len(s)) :
          /\ ij[1] <= ij[2]
          /\ \A k \in ij[1]..ij[2] : IsWord(s[k])
          /\ ij[1] = 1 \/ ~IsWord(s[ij[1] - 1])
          /\ ij[2] = Len(s) \/ ~IsWord(s[ij[2] + 1]) } }

\* the disallowed terms as the guardrail's contract lists them
DisallowedStems ==
  { <<"P","O","R","N">>, <<"N","U","D","E">>, <<"S","E","X">>, <<"K","I","L","L">>,
    <<"B","O","M","B">>, <<"H","A","C","K">>, <<"C","R","A","C","K">>,
    <<"S","U","I","C","I","D","E">> }
PluralStems == { <<"D","R","U","G">>, <<"W","E","A","P","O","N">> }
DisallowedTerms ==
  DisallowedStems \cup PluralStems \cup {t \o <<"S">> : t \in PluralStems}

\* C22: is_off_topic returns true exactly for the texts one of whose words,
\* the case folded, is a disallowed term, whatever is around the word; so
\* false for a text with no such word, the empty text among them.
C22_OffTopicIsWholeWord ==
  (call.fn = "is_off_topic" /\ call.at = "returned") =>
    (call.ret <=> \E w \in WordsOf(call.arg) : FoldText(w) \in DisallowedTerms)

\* a term in upper case is found after another word
C22_Witness ==
  /\ call.fn = "is_off_topic"
  /\ call.at = "returned"
  /\ call.arg = <<"1", " ", "D","R","U","G","S">>
  /\ call.ret = TRUE

\* where the tag that starts at index p of text ends: the first index from p
\* on that holds no word character
TagEnd(text, p) ==
  LET stops == {k \in p..Len(text) : ~IsWord(text[k])}
  IN IF stops = {} THEN Len(text) + 1 ELSE CHOOSE k \in stops : \A m \in stops : k <= m

\* a fence at index i of text whose tag, the word characters after it, is sql
OpensSql(text, i) ==
  /\ StartsWithAt(text, i, Fence)
  /\ Slice(text, i + Len(Fence), TagEnd(text, i + Len(Fence)) - 1) = <<"s","q","l">>

\* The contents of the fenced regions tagged sql of text from index pos on, in
\* order: the leftmost fence tagged sql, the content up to the next fence,
\* and on after that fence.  A fence with no fence after it opens no region.
RECURSIVE SqlRegionsFrom(_, _)
SqlRegionsFrom(text, pos) ==
  LET opens == {i \in pos..Len(text) : OpensSql(text, i)}
      i == CHOOSE k \in opens : \A m \in opens : k <= m
      e == i + Len(FenceSql)
      j == FindFrom(text, Fence, e)
  IN IF opens = {} THEN <<>>
     ELSE IF j = 0 THEN <<>>
     ELSE <<Slice(text, e, j - 1)>> \o SqlRegionsFrom(text, j + Len(Fence))

SqlRegions(text) == SqlRegionsFrom(text, 1)

\* C23: extract_sql returns one entry for each fenced region tagged sql, in
\* the order of the text, the region's content without the white space around
\* it: no entry for a text with no such region (no fence, or a fence that is
\* not closed), two for two regions, the empty text for an empty region.
C23_OneEntryPerSqlRegion ==
  (call.fn = "extract_sql" /\ call.at = "returned") =>
    call.ret = [k \in 1..Len(SqlRegions(call.arg)) |-> Strip(SqlRegions(call.arg)[k])]

\* C24: no entry of what extract_sql returns comes from a region that has no
\* tag or a tag other than sql: there are no more entries than regions tagged
\* sql, and each is the content of one of them.
C24_OtherRegionsIgnored ==
  (call.fn = "extract_sql" /\ call.at = "returned") =>
    /\ Len(call.ret) <= Len(SqlRegions(call.arg))
    /\ \A k \in 1..Len(call.ret) :
         \E n \in 1..Len(SqlRegions(call.arg)) : call.ret[k] = Strip(SqlRegions(call.arg)[n])

\* C25: when run_query succeeds it returns the first max_rows rows of the
\* cursor (500 when the call gives no max_rows), all of them when there are
\* fewer, in the cursor's order, each as a record that maps the name of every
\* column of the description to the row's value in that column.
C25_RecordsOfRows ==
  (call.fn = "run_query" /\ call.at = "returned" /\ ~call.ret.isdict) =>
    LET cap == IF call.arg.cap = <<>> THEN 500 ELSE call.arg.cap[1]
        cursor == call.arg.cursor
        records == call.ret.rows
    IN /\ Len(records) <= cap
       /\ Len(records) = Min(Len(cursor.rows), cap)
       /\ \A k \in 1..Len(records) :
            /\ DOMAIN records[k] = Range(cursor.description)
            /\ \A m \in 1..Len(cursor.description) :
                 records[k][cursor.description[m]] = cursor.rows[k][m]

\* C26: the call of get_snowflake_connection in chat() returns the handle the
\* process holds, with no call of connect, when there is one and it is not
\* closed; when there is none or it is closed, connect is called once, and its
\* handle, a new one, is stored and returned, or it raises and nothing is
\* stored.  The handle returned is not closed at that moment.
C26_HandleReusedOrReplaced ==
  [][\A r \in Reqs :
       LET usable == sf_conn # NoConn /\ sf_conn \notin closed
       IN /\ (req[r].pc = "connect" /\ req'[r].pc = "model") =>
               /\ usable
               /\ req'[r].conn = sf_conn
               /\ sf_conn' = sf_conn /\ nconn' = nconn
          /\ (req[r].pc = "connect" /\ req'[r].pc = "connecting") =>
               (~usable /\ sf_conn' = sf_conn /\ nconn' = nconn)
          /\ (req[r].pc = "connect" /\ req'[r].pc = "done") => FALSE
          /\ (req[r].pc = "connecting" /\ req'[r].pc = "model") =>
               /\ nconn' = nconn + 1
               /\ req'[r].conn = nconn'
               /\ sf_conn' = nconn'
               /\ req'[r].conn # sf_conn
               /\ req'[r].conn \notin closed
          /\ (req[r].pc = "connecting" /\ req'[r].pc = "done") =>
               (sf_conn' = sf_conn /\ nconn' = nconn)]_vars

\* a turn holds the second handle, got because the first one was closed
C26_Witness ==
  \E r \in Reqs :
    /\ req[r].pc = "model"
    /\ req[r].llm_calls = 0
    /\ req[r].conn = 2
    /\ sf_conn = 2
    /\ 1 \in closed
    /\ 2 \notin closed

\* C27: run_query is never called with a handle that is closed at that
\* moment, in whatever round, also when the handle was closed after the turn
\* got it.
C27_NoQueryOnClosedHandle ==
  [][\A r \in Reqs, k \in Cursors : RunQuery(r, k) => req[r].conn \notin closed]_vars

\* extract_sql of each response the model may give, and of any other text
ExtractedOf == [t \in Responses |-> extract_sql(t)]
Extracted(t) == IF t \in Responses THEN ExtractedOf[t] ELSE extract_sql(t)

\* whether is_safe_sql classifies as safe each candidate of those responses,
\* and any other text
SafeOf ==
  [sql \in UNION {Range(ExtractedOf[t]) : t \in Responses} |->
     is_safe_sql_returns(sql) /\ is_safe_sql(sql)]
ClassifiedSafe(sql) ==
  IF sql \in DOMAIN SafeOf THEN SafeOf[sql] ELSE is_safe_sql_returns(sql) /\ is_safe_sql(sql)

\* The statements run_query is to be called with, in order, for the responses
\* with SQL from the i-th on: the safe candidates of each response; of the last
\* response, those among the first passed candidates.
RECURSIVE SafeCandidates(_, _, _)
SafeCandidates(responses, i, passed) ==
  IF i > Len(responses) THEN <<>>
  ELSE LET qs == Extracted(responses[i].content)
           seen == IF i = Len(responses) THEN SubSeq(qs, 1, passed) ELSE qs
       IN SelectSeq(seen, ClassifiedSafe) \o SafeCandidates(responses, i + 1, passed)

\* C28: a round calls the model once, and the executor once for each
\* candidate classified safe and not at all for one classified unsafe, in the
\* order of extraction: at every moment of a turn the model was called once
\* for each round begun, and the calls of run_query so far are the safe ones
\* of the candidates the loops have passed, each once.
C28_OneCallPerSafeCandidate ==
  \A r \in Reqs :
    /\ req[r].pc = "model" => req[r].llm_calls = req[r].round - 1
    /\ InQueries(r) => (req[r].llm_calls = req[r].round /\ Len(SqlResponses(r)) = req[r].round)
    /\ req[r].run_calls = SafeCandidates(SqlResponses(r), 1, req[r].qi - 1)

\* the third round is over; each round had an unsafe candidate and a safe one
\* whose query failed
C28_Witness ==
  \E r \in Reqs :
    /\ req[r].pc = "feedback"
    /\ req[r].round = 3
    /\ req[r].response_text = RespDropSelect
    /\ req[r].run_calls = <<SqlSelect, SqlSelect, SqlSelect>>
    /\ req[r].failures = 6

\* s without its synthetic feedback messages
DropFeedback(s) == SelectSeq(s, LAMBDA m : ~IsFeedback(m))

\* the rounds with SQL that the turn of request r has completed
RoundsDone(r) == IF req[r].pc \in {"connect", "connecting"} THEN 0 ELSE req[r].round - 1

\* the sequence the turn of request r started from, the new user message
\* last: what the model-facing sequence holds before the rounds' pairs
TurnStart(r) == SubSeq(req[r].llm_messages, 1, Len(req[r].llm_messages) - 2 * RoundsDone(r))

\* what the model-facing sequence of request r holds after the turn-start
\* sequence is, for each round done, the round's response and its feedback
PairsAfterStart(r) ==
  LET llm == req[r].llm_messages
      n == Len(TurnStart(r))
  IN /\ Len(llm) >= 2 * RoundsDone(r) + 1
     /\ Last(TurnStart(r)) = Message("user", req[r].user_text)
     /\ \A i \in 1..n : ~IsFeedback(llm[i])
     /\ \A i \in 1..RoundsDone(r) :
          /\ llm[n + 2 * i - 1] = Message("assistant", SqlResponses(r)[i].content)
          /\ IsFeedback(llm[n + 2 * i])

\* the responses of the rounds done, as messages
ResponsesDone(r) ==
  [i \in 1..RoundsDone(r) |-> Message("assistant", SqlResponses(r)[i].content)]

\* C29 as stated: at every point of a turn that no other turn of the session
\* runs beside, after k rounds with SQL, the visible sequence is the
\* turn-start sequence and the k responses, the model-facing sequence the
\* turn-start sequence and k pairs of a response and its feedback, and the
\* model-facing sequence without the feedback is the visible sequence.
C29_ViewsAgreeAtEveryPoint ==
  \A r \in Reqs :
    (Running(r) /\ ~req[r].beside) =>
      /\ PairsAfterStart(r)
      /\ heap[req[r].messages] = TurnStart(r) \o ResponsesDone(r)
      /\ DropFeedback(req[r].llm_messages) = heap[req[r].messages]

\* the response of the round under way, which the visible sequence holds from
\* the moment the model gave it
Pending(r) ==
  IF req[r].pc \in {"queries", "feedback"}
    THEN <<Message("assistant", req[r].response_text)>>
    ELSE <<>>

\* C29 amended: in a turn that no other turn of the session runs beside,
\* after k rounds with SQL, the model-facing sequence is the turn-start
\* sequence and k pairs of a response and its feedback; whenever the model is
\* about to be called the visible sequence is the turn-start sequence and the
\* k responses, which is the model-facing sequence without the feedback; and
\* while the candidates of the next round are gone through the visible
\* sequence holds that round's response as well, which the model-facing
\* sequence gets, with the feedback, at the end of the round.
C29_ViewsAgreeBetweenRounds ==
  \A r \in Reqs :
    (Running(r) /\ ~req[r].beside) =>
      /\ PairsAfterStart(r)
      /\ heap[req[r].messages] = TurnStart(r) \o ResponsesDone(r) \o Pending(r)
      /\ DropFeedback(req[r].llm_messages) \o Pending(r) = heap[req[r].messages]

\* the third round of the second turn of a session is at its candidates
C29_Witness ==
  \E r \in Reqs :
    /\ req[r].pc = "queries"
    /\ req[r].round = 3
    /\ Len(TurnStart(r)) = 3
    /\ Len(heap[req[r].messages]) = 6
    /\ Len(req[r].llm_messages) = 7

\* the turn of request r has built the feedback of a round: the model is
\* about to be called again, or the fifth round has ended the turn
FedBack(r) ==
  \/ req[r].pc = "model" /\ req[r].round > 1
  \/ req[r].pc = "done" /\ Returned(r) /\ Last(req[r].steps) = Step("error", ExhaustedMsg)

\* the description of the cursor that gave the records rows
DescriptionOf(rows) ==
  (CHOOSE k \in Cursors : ~k.raises /\ run_query(<<>>, FALSE, k, max_rows).rows = rows).description

\* the result text of a candidate, from what became of it: its Step st
ResultTextOf(sql, st) ==
  IF ~ClassifiedSafe(sql) THEN BlockedMsg
  ELSE IF st.type = "query_error" THEN <<"Query error: ">> \o st.content
  ELSE ReprRows(DescriptionOf(st.content), st.content)

\* the j-th of the n Steps of the last round's candidates
LastRoundStep(r, n, j) ==
  LET steps == req[r].steps
      end == IF req[r].pc = "done" THEN Len(steps) - 1 ELSE Len(steps)
  IN steps[end - n + j]

\* C30: the feedback message built at the end of a round is the header, then
\* for each candidate extracted from the round's response, in order and
\* separated by an empty line, the label "Query result i:" with i from 1 and
\* on the next line the candidate's result text (the blocked message for an
\* unsafe candidate, "Query error: " and the message for a failed query, the
\* rendering of the records for a successful one), then the trailer.
C30_FeedbackListsEachResult ==
  \A r \in Reqs :
    FedBack(r) =>
      LET llm == req[r].llm_messages
          qs == Extracted(llm[Len(llm) - 1].content)
          n == Len(qs)
      IN /\ n >= 1
         /\ llm[Len(llm)].role = "user"
         /\ llm[Len(llm)].content =
              <<"Here are the query results:\n\n">>
              \o Join(<<"\n", "\n">>,
                      [i \in 1..n |->
                         <<"Query result ">> \o DecimalText(i) \o <<":", "\n">>
                         \o ResultTextOf(qs[i], LastRoundStep(r, n, i))])
              \o FeedbackTrailer

\* the feedback of a round with a blocked candidate and a failed query
C30_Witness ==
  \E r \in Reqs :
    /\ req[r].pc = "model"
    /\ req[r].round = 2
    /\ Last(req[r].llm_messages).content =
         <<"Here are the query results:\n\n">>
         \o <<"Query result ", "1", ":", "\n">> \o BlockedMsg
         \o <<"\n", "\n">>
         \o <<"Query result ", "2", ":", "\n", "Query error: ", "SQL compilation error">>
         \o FeedbackTrailer

\* C37: is_safe_sql is total: every call of it returns, with a boolean, also
\* on a text that is only a line comment with no line break after it, or only
\* a block comment that is not closed.
C37_IsSafeSqlTotal ==
  (call.fn = "is_safe_sql" /\ call.at # "called") =>
    (call.at = "returned" /\ call.ret \in BOOLEAN)

\* s is a prefix of t
IsPrefix(s, t) == Len(s) <= Len(t) /\ SubSeq(t, 1, Len(s)) = s

\* the step removes the store's entry of the session of client c: a reset
RemovesEntry(c) == cookie[c] \in DOMAIN conversations /\ cookie[c] \notin DOMAIN conversations'

\* C31: but for a reset, no step changes the visible sequence of a session
\* other than by appending to it: the sequence before the step is a prefix of
\* the sequence after it, so no entry is modified, reordered or removed, over
\* any number of turns.
C31_VisibleAppendOnly ==
  [][\A c \in Clients :
       ~RemovesEntry(c) => IsPrefix(SessionView(c), SessionView(c)')]_vars

\* the second turn of a session has appended to what the first one left
C31_Witness ==
  \E c \in Clients :
    /\ Len(SessionView(c)) >= 4
    /\ SessionView(c)[1].role = "user"
    /\ SessionView(c)[2].role = "assistant"
    /\ SessionView(c)[3].role = "user"
    /\ SessionView(c)[4].role = "assistant"

\* a turn that an error Step has just ended: a failed call of the model, or
\* the fifth round with SQL; its session's visible sequence is the list the
\* turn appended to, and no other turn of the session has been inside
\* chat() since it began
EndedInError(r) ==
  /\ req[r].pc = "done"
  /\ Returned(r)
  /\ req[r].llm_calls > 0
  /\ Last(req[r].steps).type = "error"
  /\ Visible(r) = heap[req[r].messages]
  /\ ~req[r].beside

\* C32: after a turn that ended in an error Step, the visible sequence is
\* what it was before the turn (which the turn copied for the model), then
\* the user message, then one assistant entry for each response of the turn
\* that had SQL, in order, and nothing else: nothing is taken back, and no
\* entry holds the error's text.
C32_ErrorTurnNotRolledBack ==
  \A r \in Reqs :
    EndedInError(r) =>
      LET v == Visible(r)
          llm == req[r].llm_messages
          k == Len(SqlResponses(r))
          base == Len(v) - k
      IN /\ base >= 1
         /\ Len(llm) >= base
         /\ SubSeq(v, 1, base) = SubSeq(llm, 1, base)
         /\ v[base] = Message("user", req[r].user_text)
         /\ \A i \in 1..k : v[base + i] = Message("assistant", SqlResponses(r)[i].content)
         /\ \A i \in 1..(base - 1) : ~IsFeedback(v[i])
         /\ \A i \in 1..Len(v) : v[i].content # Last(req[r].steps).content

\* the model failed in the third round of a session's second turn
C32_Witness ==
  \E r \in Reqs :
    /\ EndedInError(r)
    /\ req[r].raised # <<>>
    /\ Len(SqlResponses(r)) = 2
    /\ Len(Visible(r)) = 5

\* request r was answered with the guardrail's refusal
Refused(r) ==
  /\ req[r].pc = "done"
  /\ req[r].llm_calls = 0
  /\ req[r].steps = <<Step("answer", RefusalText)>>

\* the texts the guardrail refuses, among those a client may send
RefusedTexts ==
  { Strip(m) : m \in { n \in MessageInputs \ {None} : Strip(n) # <<>> /\ is_off_topic(Strip(n)) } }

\* no entry of the sequence holds a refused text
HoldsNoRefused(msgs) == \A i \in 1..Len(msgs) : msgs[i].content \notin RefusedTexts

\* C33: the step that refuses an off-topic message changes neither the
\* store nor the lists nor the session ids (no user message appended, no
\* entry made for the session), and after every step no stored list and no
\* model input of a turn holds a refused text.
C33_OffTopicLeavesStore ==
  [][/\ \A r \in Reqs :
          (req'[r] # req[r] /\ req'[r].pc = "done" /\ req'[r].llm_calls = 0
             /\ req'[r].steps = <<Step("answer", RefusalText)>>)
            => UNCHANGED <<cookie, conversations, heap>>
     /\ \A i \in 1..Len(heap') : HoldsNoRefused(heap'[i])
     /\ \A r \in Reqs : HoldsNoRefused(req'[r].llm_messages)]_vars

\* a message of a session with two stored messages has been refused,
\* while the other client has no session yet
C33_Witness ==
  \E r \in Reqs :
    /\ Refused(r)
    /\ req[r].user_text \in RefusedTexts
    /\ Len(SessionView(req[r].client)) = 2
    /\ \E d \in Clients : cookie[d] = NoSid

\* the turn of request r is over, and nothing failed in it
TurnOver(r) ==
  /\ req[r].pc = "done"
  /\ req[r].messages # 0
  /\ req[r].llm_calls > 0
  /\ req[r].failures = 0

\* what the turn of request r appended to its list
Own(r) ==
  <<Message("user", req[r].user_text)>> \o
  [i \in 1..Len(SelectSeq(req[r].steps, LAMBDA st : st.type \in {"llm_response", "answer"})) |->
     Message("assistant",
             SelectSeq(req[r].steps, LAMBDA st : st.type \in {"llm_response", "answer"})[i].content)]

\* what the model was given in the first round of the turn of request r
FirstInput(r) ==
  SubSeq(req[r].llm_messages, 1, Len(req[r].llm_messages) - 2 * Len(SqlResponses(r)))

\* the list and the model inputs are those of turn a followed by turn b
SerialOrder(a, b) ==
  /\ heap[req[a].messages] = Own(a) \o Own(b)
  /\ FirstInput(a) = <<Message("user", req[a].user_text)>>
  /\ FirstInput(b) = Own(a) \o <<Message("user", req[b].user_text)>>

\* the list of request r is the stored list of its session
Stored(r) ==
  /\ req[r].messages # 0
  /\ cookie[req[r].client] \in DOMAIN conversations
  /\ conversations[cookie[req[r].client]] = req[r].messages

\* C34 as stated: when a reset of a session has completed while a turn of
\* that session was in flight, the list the turn has appended to since is
\* not the session's stored list: nothing the turn appended after the reset
\* is visible.
C34_ResetHidesInFlightTurn ==
  \A r \in Reqs :
    (req[r].reset_during /\ req[r].messages # 0 /\ req[r].pc # "append") => ~Stored(r)

\* C34: when a reset of a session has completed while a turn of that session
\* held the session's list, that list is never the session's stored list
\* again, so nothing the turn appends after the reset is visible; the
\* session's sequence is empty, or is what another turn, which found it
\* empty, has appended.
C34_ResetOrphansHeldList ==
  \A r \in Reqs :
    req[r].reset_len >= 0 =>
      /\ ~Stored(r)
      /\ \/ SessionView(req[r].client) = <<>>
         \/ \E q \in Reqs \ {r} : Stored(q) /\ SessionView(req[r].client) = Own(q)

\* a turn appended to its list after a reset that found its user message
\* in it, and the session's sequence is what the other turn appended
C34_Witness ==
  \E r \in Reqs :
    /\ req[r].reset_len >= 1
    /\ Len(heap[req[r].messages]) > req[r].reset_len
    /\ \E q \in Reqs \ {r} :
         /\ Stored(q)
         /\ Len(SessionView(req[q].client)) >= 1
         /\ SessionView(req[q].client) = Own(q)

\* C35: when the two turns of one session, processed at once on the same
\* list, are over, the list and what each turn gave the model are those of
\* one turn followed by the other.
C35_SameSessionSerializable ==
  (TurnOver(1) /\ TurnOver(2) /\ req[1].messages = req[2].messages) =>
    (SerialOrder(1, 2) \/ SerialOrder(2, 1))

\* what the Flask turn appended to its session's list
FlaskAppended ==
  IF req[FlaskReq].messages = 0 THEN <<>> ELSE heap[req[FlaskReq].messages]

\* what the run of the script appended to st.session_state.messages
AppAppended ==
  IF req[AppReq].messages = 0 THEN <<>> ELSE heap[req[AppReq].messages]

\* both front ends are through with the input, and no call of the model and
\* no connect failed
BothDone ==
  /\ req[AppReq].pc = "done"
  /\ req[FlaskReq].pc = "done"
  /\ req[AppReq].raised = <<>>
  /\ req[FlaskReq].raised = <<>>
  /\ req[FlaskReq].response.status # 500

\* C36: on the same user input, the same responses of the model and the
\* same outcomes of the queries, the Streamlit script and the Flask app
\* append the same entries to the visible history, call the model the same
\* number of times and call run_query on the same statements in the same
\* order.
C36_LoopsAgree ==
  BothDone =>
    /\ AppAppended = FlaskAppended
    /\ req[AppReq].llm_calls = req[FlaskReq].llm_calls
    /\ req[AppReq].run_calls = req[FlaskReq].run_calls

====
